---------------------------- MODULE Spec2Model ----------------------------
(***************************************************************************)
(* HubFlow (JML Automation Hub): the REST handlers of server/routes.ts     *)
(* over the tables of shared/schema.ts, reached through the storage layer  *)
(* (DatabaseStorage, whose source is the second half of replit.md).        *)
(*                                                                         *)
(* Every `await storage.x(...)` of a handler is one atomic database        *)
(* statement; a handler is the sequence of its statements, and statements  *)
(* of different requests interleave freely (Node's event loop resumes a    *)
(* handler after each await).  A request's arrival is folded into its      *)
(* first statement, its response into its last.                            *)
(***************************************************************************)
EXTENDS Integers, Sequences, FiniteSets, TLC

(***************************************************************************)
(* Bounds of the model.                                                    *)
(***************************************************************************)
MaxTemplates == 1        \* template rows ever inserted (Spec)
MaxTemplateSteps == 3    \* template step rows ever inserted (Spec)
MaxWorkflows == 1        \* workflow rows ever inserted (Spec)
MaxWorkflowSteps == 2    \* workflow step rows ever inserted (Spec)
MaxSeqSteps == 2         \* steps of the workflow of SpecSeq
MaxRaceSteps == 2        \* steps of the workflow of SpecRace
MaxRoundTotal == 40      \* steps of the workflow of SpecRound
MaxUsers == 2            \* user rows ever inserted (SpecUsers, SpecCrud)
MaxEntities == 1         \* rows ever inserted per plain table (SpecCrud)
MaxRequests == 3         \* requests of a behaviour of SpecCrud, SpecDelete
MaxSeeds == 2            \* calls of POST /api/seed (SpecSeed)
MaxEmployees == 3        \* stored employees (SpecEmployees)
MaxPairSteps == 4        \* steps of the workflow of SpecPair
LongTotal == 200         \* steps of the workflow of SpecLong

Procs == {1, 2}

NULL == "null"
Now == "ts"

(***************************************************************************)
(* Math.round((completedSteps / allSteps.length) * 100) of routes.ts:341,  *)
(* computed as JavaScript computes it: both operands are IEEE-754 binary64 *)
(* numbers, the quotient is rounded to 53 significant bits (ties to even), *)
(* the product with 100 is rounded again, and Math.round takes the nearest *)
(* integer with ties towards +Infinity.  Numbers are bit sequences, most   *)
(* significant bit first, with a count of fractional bits.                 *)
(***************************************************************************)
MantissaBits == 53
LimbBits == 9
LimbBase == 512

RECURSIVE Pow2(_)
Pow2(k) == IF k = 0 THEN 1 ELSE 2 * Pow2(k - 1)

RECURSIVE LeadShift(_, _)
\* The least e with c * 2^e >= n, for 0 < c.
LeadShift(c, n) == IF c >= n THEN 0 ELSE 1 + LeadShift(2 * c, n)

RECURSIVE BitsToInt(_)
BitsToInt(bits) ==
    IF bits = <<>> THEN 0
    ELSE 2 * BitsToInt(SubSeq(bits, 1, Len(bits) - 1)) + bits[Len(bits)]

\* The bits of a sequence of base-512 limbs, most significant first.
LimbsToBits(limbs) ==
    [j \in 1..(LimbBits * Len(limbs)) |->
        (limbs[((j - 1) \div LimbBits) + 1]
            \div Pow2(LimbBits - 1 - ((j - 1) % LimbBits))) % 2]

\* The limbs of a bit sequence whose length is a multiple of 9.
BitsToLimbs(bits) ==
    [i \in 1..(Len(bits) \div LimbBits) |->
        BitsToInt(SubSeq(bits, LimbBits * (i - 1) + 1, LimbBits * i))]

StripZeros(bits) ==
    IF \A i \in 1..Len(bits) : bits[i] = 0 THEN <<>>
    ELSE LET first == CHOOSE i \in 1..Len(bits) :
                         bits[i] = 1 /\ \A j \in 1..(i - 1) : bits[j] = 0
         IN  SubSeq(bits, first, Len(bits))

\* bits + 1, one bit longer when the carry runs out of the top.
BitsInc(bits) ==
    IF \A i \in 1..Len(bits) : bits[i] = 1
    THEN <<1>> \o [i \in 1..Len(bits) |-> 0]
    ELSE LET last == CHOOSE i \in 1..Len(bits) :
                        bits[i] = 0 /\ \A j \in (i + 1)..Len(bits) : bits[j] = 1
         IN  [i \in 1..Len(bits) |->
                 IF i < last THEN bits[i] ELSE IF i = last THEN 1 ELSE 0]

RECURSIVE QuotientLimbs(_, _, _)
\* The next k base-512 digits of the expansion of r/n (0 <= r < n), then the
\* remainder that is left.
QuotientLimbs(r, n, k) ==
    IF k = 0 THEN <<r>>
    ELSE <<(r * LimbBase) \div n>>
           \o QuotientLimbs((r * LimbBase) % n, n, k - 1)

RECURSIVE TimesLimbs(_, _, _)
\* limbs * m + carry, as limbs, one limb longer (the last carry leads).
TimesLimbs(limbs, m, carry) ==
    IF limbs = <<>> THEN <<carry>>
    ELSE LET k == Len(limbs)
             p == limbs[k] * m + carry
         IN  TimesLimbs(SubSeq(limbs, 1, k - 1), m, p \div LimbBase)
               \o << p % LimbBase >>

\* A number [bits, frac]: the integer `bits` divided by 2^frac, rounded to
\* 53 significant bits, ties to even (the rounding of every binary64
\* operation).
RoundToDouble(x) ==
    LET bits == StripZeros(x.bits)
        n    == Len(bits)
    IN  IF n <= MantissaBits THEN [bits |-> bits, frac |-> x.frac]
        ELSE LET keep   == SubSeq(bits, 1, MantissaBits)
                 guard  == bits[MantissaBits + 1]
                 sticky == \E i \in (MantissaBits + 2)..n : bits[i] = 1
                 up     == guard = 1 /\ (sticky \/ keep[MantissaBits] = 1)
             IN  [bits |-> IF up THEN BitsInc(keep) ELSE keep,
                  frac |-> x.frac - (n - MantissaBits)]

\* completedSteps / allSteps.length for 0 < c < n, as a binary64 number:
\* the leading 1, 54 further quotient bits, and a last bit that says whether
\* a remainder is left.
DoubleDiv(c, n) ==
    LET e      == LeadShift(c, n)
        q      == QuotientLimbs(c * Pow2(e) - n, n, 6)
        sticky == IF q[7] # 0 THEN 1 ELSE 0
    IN  RoundToDouble(
            [bits |-> <<1>> \o LimbsToBits(SubSeq(q, 1, 6)) \o <<sticky>>,
             frac |-> e + 6 * LimbBits + 1])

\* x * 100 as a binary64 number.
DoubleTimes100(x) ==
    LET n      == Len(x.bits)
        pad    == (LimbBits - (n % LimbBits)) % LimbBits
        padded == [i \in 1..pad |-> 0] \o x.bits
    IN  RoundToDouble(
            [bits |-> LimbsToBits(TimesLimbs(BitsToLimbs(padded), 100, 0)),
             frac |-> x.frac])

\* Math.round of a non-negative number: floor(x + 1/2), computed exactly.
MathRound(x) ==
    LET bits == StripZeros(x.bits)
        n    == Len(bits)
        ip   == n - x.frac          \* number of integer bits
    IN  IF x.frac <= 0 THEN BitsToInt(bits) * Pow2(0 - x.frac)
        ELSE IF ip < 0 THEN 0
        ELSE BitsToInt(SubSeq(bits, 1, ip)) + bits[ip + 1]

\* Math.round(NaN) is NaN: no integer; every comparison with it is false,
\* which -1 gives for `=== 100` and `> 0`.
NaN == -1

JsProgress(c, n) ==
    IF n = 0 THEN NaN
    ELSE IF c = 0 THEN 0
    ELSE IF c = n THEN 100
    ELSE MathRound(DoubleTimes100(DoubleDiv(c, n)))


\* The progress of every (completed, total) the model can meet, computed
\* once.
Max(S) == CHOOSE x \in S : \A y \in S : y <= x

MaxTotal == Max({MaxWorkflowSteps, MaxSeqSteps, MaxRaceSteps, MaxRoundTotal})

ProgressTable ==
    [n \in (0..MaxTotal) \cup {LongTotal} |-> [c \in 0..n |-> JsProgress(c, n)]]

Progress(c, n) == ProgressTable[n][c]

(***************************************************************************)
(* The tables (shared/schema.ts).  A table is a function from the ids of   *)
(* its rows to the rows; only the columns the handlers below read or write *)
(* are kept.  Ids are gen_random_uuid(): fresh on every insert, never      *)
(* reused, modelled as a counter per table.                                *)
(***************************************************************************)
VARIABLES
    templates,        \* workflow_templates: the set of ids with a row
    templateSteps,    \* template_steps: id -> [templateId, name, stepOrder]
    workflows,        \* workflows: id -> [templateId, status, progress, completedAt]
    workflowSteps,    \* workflow_steps: id -> [workflowId, templateStepId, name, stepOrder, status]
    auditLogs,        \* audit_logs: the set of [action, entityType, entityId] rows
    nextId,           \* the next fresh id of each table
    req,              \* per request slot: where its handler stands, and its locals
    resp,             \* the last response sent: [route, status, id, body]
    users,            \* users: id -> [email, password]
    entities,         \* departments, employees, tasks, notifications: each id -> row
    budget            \* the requests the clients may still send, or Unlimited

db == <<templates, templateSteps, workflows, workflowSteps, auditLogs, nextId>>
vars == <<templates, templateSteps, workflows, workflowSteps, auditLogs,
          nextId, req, resp, users, entities, budget>>

WorkflowStatus == {"pending", "in_progress", "completed", "blocked", "cancelled"}
StepStatus == {"pending", "in_progress", "completed", "blocked", "skipped"}

Idle == [pc |-> "idle"]

NoBody == [f \in {} |-> NULL]     \* the body {}

\* drizzle's .set({...data}): only the supplied columns change.
Merge(row, data) ==
    [f \in DOMAIN row |-> IF f \in DOMAIN data THEN data[f] ELSE row[f]]

Has(body, f) == f \in DOMAIN body

\* f with the row id |-> row added.
Insert(f, id, row) == [x \in DOMAIN f \cup {id} |-> IF x = id THEN row ELSE f[x]]

\* f without the rows whose id is in ids.
Remove(f, ids) == [x \in DOMAIN f \ ids |-> f[x]]

\* The results a SELECT ... ORDER BY stepOrder can give for the rows `ids` of
\* table f: every arrangement in ascending stepOrder (the order of rows with
\* equal stepOrder is the database's choice).
OrderedBy(f, ids) ==
    { s \in [1..Cardinality(ids) -> ids] :
        /\ \A i, j \in DOMAIN s : i # j => s[i] # s[j]
        /\ \A i, j \in DOMAIN s : i < j => f[s[i]].stepOrder <= f[s[j]].stepOrder }

TemplateStepIds(tid) == { s \in DOMAIN templateSteps : templateSteps[s].templateId = tid }
WorkflowStepIds(wid) == { s \in DOMAIN workflowSteps : workflowSteps[s].workflowId = wid }

\* storage.getTemplateSteps / storage.getWorkflowSteps: the rows themselves,
\* each with its id.
GetTemplateSteps(tid) ==
    { [i \in DOMAIN s |-> [id |-> s[i]] @@ templateSteps[s[i]]] :
        s \in OrderedBy(templateSteps, TemplateStepIds(tid)) }

GetWorkflowSteps(wid) ==
    { [i \in DOMAIN s |-> [id |-> s[i]] @@ workflowSteps[s[i]]] :
        s \in OrderedBy(workflowSteps, WorkflowStepIds(wid)) }

Respond(p, route, status, id, body) ==
    resp' = [route |-> route, status |-> status, id |-> id, body |-> body]

Done(p) == req' = [req EXCEPT ![p] = Idle]

\* A request arrives at the free slot p, if the clients still send one.
Unlimited == -1

Accept(p) ==
    /\ req[p] = Idle
    /\ budget # 0
    /\ budget' = IF budget = Unlimited THEN Unlimited ELSE budget - 1
Goto(p, r) == req' = [req EXCEPT ![p] = r]

\* storage.createAuditLog through createAuditLog.
CreateAuditLog(action, entityType, entityId) ==
    auditLogs' = auditLogs \cup
        {[action |-> action, entityType |-> entityType, entityId |-> entityId]}

(***************************************************************************)
(* PATCH /api/workflow-steps/:id (routes.ts:331-355): the step update, and *)
(* for a body whose status is "completed" the progress aggregation: the    *)
(* read of the workflow's steps and the write of the workflow row.         *)
(***************************************************************************)
\* Variant: the update of a finished workflow without the completion stamp.
WorkflowUpdateUnstamped(progress) ==
    IF progress = 100
    THEN [progress |-> progress, status |-> "completed"]
    ELSE IF progress > 0
    THEN [progress |-> progress, status |-> "in_progress"]
    ELSE [progress |-> progress]

\* Variant: a progress of 0 puts the workflow back to pending.
WorkflowUpdateResets(progress) ==
    IF progress = 100
    THEN [progress |-> progress, status |-> "completed", completedAt |-> Now]
    ELSE IF progress > 0
    THEN [progress |-> progress, status |-> "in_progress"]
    ELSE [progress |-> progress, status |-> "pending"]

\* routes.ts:343-349: the update the aggregator prepares from the progress.
WorkflowUpdate(progress) ==
    IF progress = 100
    THEN [progress |-> progress, status |-> "completed", completedAt |-> Now]
    ELSE IF progress > 0
    THEN [progress |-> progress, status |-> "in_progress"]
    ELSE [progress |-> progress]

\* routes.ts:338: the aggregator runs for this body and this updated row.
Aggregates(body, step) ==
    /\ Has(body, "status")
    /\ body.status = "completed"
    /\ step.workflowId # 0          \* truthy: not the empty id

\* Variant: the aggregator runs for a body with any status.
PatchStepUpdateAnyStatus(p, id, body) ==
    /\ Accept(p)
    /\ IF id \notin DOMAIN workflowSteps
       THEN /\ Respond(p, "PATCH step", 404, id, <<>>)
            /\ UNCHANGED <<db, req>>
       ELSE LET step == Merge(workflowSteps[id], body)
            IN  /\ workflowSteps' = [workflowSteps EXCEPT ![id] = step]
                /\ UNCHANGED <<templates, templateSteps, workflows, auditLogs, nextId>>
                /\ IF Has(body, "status") /\ step.workflowId # 0
                   THEN /\ Goto(p, [pc |-> "ps_read", id |-> id,
                                    wid |-> step.workflowId,
                                    was |-> workflowSteps[id].status])
                        /\ UNCHANGED resp
                   ELSE /\ Respond(p, "PATCH step", 200, id, <<>>)
                        /\ UNCHANGED req
    /\ UNCHANGED <<users, entities>>

\* Variant: the aggregator takes the step list before the step is updated.
PatchStepUpdateReadsFirst(p, id, body) ==
    /\ Accept(p)
    /\ IF id \notin DOMAIN workflowSteps
       THEN /\ Respond(p, "PATCH step", 404, id, <<>>)
            /\ UNCHANGED <<db, req>>
       ELSE LET step      == Merge(workflowSteps[id], body)
                allSteps  == WorkflowStepIds(step.workflowId)
                completed == { s \in allSteps :
                                 workflowSteps[s].status = "completed" }
            IN  /\ workflowSteps' = [workflowSteps EXCEPT ![id] = step]
                /\ UNCHANGED <<templates, templateSteps, workflows, auditLogs, nextId>>
                /\ IF Aggregates(body, step)
                   THEN /\ Goto(p, [pc |-> "ps_write", id |-> id,
                                    wid |-> step.workflowId,
                                    was |-> workflowSteps[id].status,
                                    total |-> Cardinality(allSteps),
                                    update |-> WorkflowUpdate(
                                        Progress(Cardinality(completed),
                                                 Cardinality(allSteps)))])
                        /\ UNCHANGED resp
                   ELSE /\ Respond(p, "PATCH step", 200, id, <<>>)
                        /\ UNCHANGED req
    /\ UNCHANGED <<users, entities>>

\* routes.ts:332-337, 354: storage.updateWorkflowStep(id, body).  `was` (the
\* status the step had) and, below, `total` are kept for stating properties;
\* no action reads them.
PatchStepUpdate(p, id, body) ==
    /\ Accept(p)
    /\ IF id \notin DOMAIN workflowSteps
       THEN /\ Respond(p, "PATCH step", 404, id, <<>>)
            /\ UNCHANGED <<db, req>>
       ELSE LET step == Merge(workflowSteps[id], body)
            IN  /\ workflowSteps' = [workflowSteps EXCEPT ![id] = step]
                /\ UNCHANGED <<templates, templateSteps, workflows, auditLogs, nextId>>
                /\ IF Aggregates(body, step)
                   THEN /\ Goto(p, [pc |-> "ps_read", id |-> id,
                                    wid |-> step.workflowId,
                                    was |-> workflowSteps[id].status])
                        /\ UNCHANGED resp
                   ELSE /\ Respond(p, "PATCH step", 200, id, <<>>)
                        /\ UNCHANGED req
    /\ UNCHANGED <<users, entities>>

\* Variant: the aggregator loads the other steps of the workflow.
PatchStepReadOthers(p) ==
    /\ req[p].pc = "ps_read"
    /\ LET allSteps       == WorkflowStepIds(req[p].wid) \ {req[p].id}
           completedSteps == { s \in allSteps : workflowSteps[s].status = "completed" }
           progress       == Progress(Cardinality(completedSteps), Cardinality(allSteps))
       IN  Goto(p, [pc |-> "ps_write", id |-> req[p].id, wid |-> req[p].wid,
                    was |-> req[p].was, total |-> Cardinality(allSteps),
                    update |-> WorkflowUpdate(progress)])
    /\ UNCHANGED <<db, resp>>
    /\ UNCHANGED <<users, entities, budget>>

\* Variant: the aggregator counts the step of the request only when the
\* request has completed it.
PatchStepReadCountsChange(p) ==
    /\ req[p].pc = "ps_read"
    /\ LET allSteps       == WorkflowStepIds(req[p].wid)
           completedSteps == { s \in allSteps :
                                 /\ workflowSteps[s].status = "completed"
                                 /\ s = req[p].id => req[p].was # "completed" }
           progress       == Progress(Cardinality(completedSteps), Cardinality(allSteps))
       IN  Goto(p, [pc |-> "ps_write", id |-> req[p].id, wid |-> req[p].wid,
                    was |-> req[p].was, total |-> Cardinality(allSteps),
                    update |-> WorkflowUpdate(progress)])
    /\ UNCHANGED <<db, resp>>
    /\ UNCHANGED <<users, entities, budget>>

\* routes.ts:339-349: storage.getWorkflowSteps(step.workflowId), the count
\* of completed steps, the progress and the update built from it.
PatchStepRead(p) ==
    /\ req[p].pc = "ps_read"
    /\ LET allSteps       == WorkflowStepIds(req[p].wid)
           completedSteps == { s \in allSteps : workflowSteps[s].status = "completed" }
           progress       == Progress(Cardinality(completedSteps), Cardinality(allSteps))
       IN  Goto(p, [pc |-> "ps_write", id |-> req[p].id, wid |-> req[p].wid,
                    was |-> req[p].was, total |-> Cardinality(allSteps),
                    update |-> WorkflowUpdate(progress)])
    /\ UNCHANGED <<db, resp>>
    /\ UNCHANGED <<users, entities, budget>>

\* Variant: the write takes the progress of the steps as they are at the
\* write, not as they were read.
PatchStepWriteFresh(p) ==
    /\ req[p].pc = "ps_write"
    /\ LET wid       == req[p].wid
           allSteps  == WorkflowStepIds(wid)
           completed == { s \in allSteps : workflowSteps[s].status = "completed" }
           update    == WorkflowUpdate(Progress(Cardinality(completed),
                                                Cardinality(allSteps)))
       IN  IF update.progress = NaN
           THEN /\ Respond(p, "PATCH step", 500, req[p].id, <<>>)
                /\ UNCHANGED db
           ELSE /\ workflows' =
                      IF wid \in DOMAIN workflows
                      THEN [workflows EXCEPT ![wid] = Merge(@, update)]
                      ELSE workflows
                /\ Respond(p, "PATCH step", 200, req[p].id, <<>>)
                /\ UNCHANGED <<templates, templateSteps, workflowSteps, auditLogs, nextId>>
    /\ Done(p)
    /\ UNCHANGED <<users, entities, budget>>

\* Variant: a workflow that is completed is left as it is.
PatchStepWriteKeepsCompleted(p) ==
    /\ req[p].pc = "ps_write"
    /\ LET wid == req[p].wid
       IN  IF req[p].update.progress = NaN
           THEN /\ Respond(p, "PATCH step", 500, req[p].id, <<>>)
                /\ UNCHANGED db
           ELSE /\ workflows' =
                      IF wid \in DOMAIN workflows
                         /\ workflows[wid].status # "completed"
                      THEN [workflows EXCEPT ![wid] = Merge(@, req[p].update)]
                      ELSE workflows
                /\ Respond(p, "PATCH step", 200, req[p].id, <<>>)
                /\ UNCHANGED <<templates, templateSteps, workflowSteps, auditLogs, nextId>>
    /\ Done(p)
    /\ UNCHANGED <<users, entities, budget>>

\* routes.ts:351, 354: storage.updateWorkflow(step.workflowId, workflowUpdate),
\* then the response.  An update that carries NaN for the integer column is
\* refused by the database: the statement throws and asyncHandler passes the
\* error on (a 500).  An id without a row updates nothing.
PatchStepWrite(p) ==
    /\ req[p].pc = "ps_write"
    /\ LET wid == req[p].wid
       IN  IF req[p].update.progress = NaN
           THEN /\ Respond(p, "PATCH step", 500, req[p].id, <<>>)
                /\ UNCHANGED db
           ELSE /\ workflows' =
                      IF wid \in DOMAIN workflows
                      THEN [workflows EXCEPT ![wid] = Merge(@, req[p].update)]
                      ELSE workflows
                /\ Respond(p, "PATCH step", 200, req[p].id, <<>>)
                /\ UNCHANGED <<templates, templateSteps, workflowSteps, auditLogs, nextId>>
    /\ Done(p)
    /\ UNCHANGED <<users, entities, budget>>

(***************************************************************************)
(* Validation. An insert schema is kept as the columns a body must have    *)
(* and the columns it may have; a key that is no column is dropped.        *)
(***************************************************************************)
\* schema.safeParse(body).success and .data.
Parses(schema, body) == schema.required \subseteq DOMAIN body
ParsedData(schema, body) == [f \in DOMAIN body \cap schema.columns |-> body[f]]

\* The body of the 400: parsed.error.errors, one error per required column
\* the body lacks.
FieldErrors(schema, body) == <<[errors |-> schema.required \ DOMAIN body]>>

\* insertTemplateStepSchema (schema.ts:206-209), for the columns the model
\* keeps.
InsertTemplateStepSchema ==
    [required |-> {"templateId", "name", "stepOrder"},
     columns  |-> {"templateId", "name", "stepOrder"}]

\* insertWorkflowSchema (schema.ts:211-215), for the column the model keeps.
InsertWorkflowSchema ==
    [required |-> {"templateId"}, columns |-> {"templateId"}]

\* The not-null columns of template_steps without a default that the body
\* of a step has to bring (schema.ts:84, 86): the insert of a step that
\* lacks one is refused by the database.
Storable(step) == {"name", "stepOrder"} \subseteq DOMAIN step

(***************************************************************************)
(* The workflow routes (routes.ts:279-329).                                *)
(***************************************************************************)
\* The row createWorkflow inserts for a body: the columns the body leaves
\* out take the defaults of schema.ts:103-109.
WorkflowRow(body) ==
    Merge([templateId |-> 0, status |-> "pending", progress |-> 0,
           completedAt |-> NULL], body)

\* routes.ts:279-287: safeParse, storage.createWorkflow(parsed.data).
PostWorkflowCreate(p, body) ==
    /\ Accept(p)
    /\ IF ~Parses(InsertWorkflowSchema, body)
       THEN /\ Respond(p, "POST workflow", 400, 0,
                       FieldErrors(InsertWorkflowSchema, body))
            /\ UNCHANGED <<workflows, nextId, req>>
       ELSE /\ nextId.workflow <= MaxWorkflows
            /\ LET wid == nextId.workflow
               IN  /\ workflows' = Insert(workflows, wid, WorkflowRow(body))
                   /\ nextId' = [nextId EXCEPT !.workflow = @ + 1]
                   /\ Goto(p, IF body.templateId # 0     \* truthy: not the empty id
                           THEN [pc |-> "wc_read", wid |-> wid,
                                 templateId |-> body.templateId]
                           ELSE [pc |-> "wc_audit", wid |-> wid, snap |-> <<>>])
            /\ UNCHANGED resp
    /\ UNCHANGED <<templates, templateSteps, workflowSteps, auditLogs>>
    /\ UNCHANGED <<users, entities>>

\* routes.ts:288: storage.getTemplateSteps(parsed.data.templateId).
PostWorkflowRead(p) ==
    /\ req[p].pc = "wc_read"
    /\ \E snap \in GetTemplateSteps(req[p].templateId) :
          Goto(p, IF snap = <<>>
                  THEN [pc |-> "wc_audit", wid |-> req[p].wid, snap |-> snap]
                  ELSE [pc |-> "wc_insert", wid |-> req[p].wid, snap |-> snap,
                        i |-> 1])
    /\ UNCHANGED <<db, resp>>
    /\ UNCHANGED <<users, entities, budget>>

\* Variant: the steps of the new workflow are numbered as they are inserted.
PostWorkflowInsertRenumbered(p) ==
    /\ req[p].pc = "wc_insert"
    /\ nextId.workflowStep <= MaxWorkflowSteps
    /\ LET templateStep == req[p].snap[req[p].i]
       IN  workflowSteps' = Insert(workflowSteps, nextId.workflowStep,
               [workflowId     |-> req[p].wid,
                templateStepId |-> templateStep.id,
                name           |-> templateStep.name,
                stepOrder      |-> req[p].i,
                status         |-> "pending"])
    /\ nextId' = [nextId EXCEPT !.workflowStep = @ + 1]
    /\ Goto(p, IF req[p].i = Len(req[p].snap)
               THEN [pc |-> "wc_audit", wid |-> req[p].wid, snap |-> req[p].snap]
               ELSE [req[p] EXCEPT !.i = @ + 1])
    /\ UNCHANGED <<templates, templateSteps, workflows, auditLogs, resp>>
    /\ UNCHANGED <<users, entities, budget>>

\* Variant: a step of the snapshot that the template has lost since is not
\* cloned.
PostWorkflowInsertSkipsDeleted(p) ==
    /\ req[p].pc = "wc_insert"
    /\ nextId.workflowStep <= MaxWorkflowSteps
    /\ LET templateStep == req[p].snap[req[p].i]
       IN  IF templateStep.id \in DOMAIN templateSteps
           THEN /\ workflowSteps' = Insert(workflowSteps, nextId.workflowStep,
                       [workflowId     |-> req[p].wid,
                        templateStepId |-> templateStep.id,
                        name           |-> templateStep.name,
                        stepOrder      |-> templateStep.stepOrder,
                        status         |-> "pending"])
                /\ nextId' = [nextId EXCEPT !.workflowStep = @ + 1]
           ELSE UNCHANGED <<workflowSteps, nextId>>
    /\ Goto(p, IF req[p].i = Len(req[p].snap)
               THEN [pc |-> "wc_audit", wid |-> req[p].wid, snap |-> req[p].snap]
               ELSE [req[p] EXCEPT !.i = @ + 1])
    /\ UNCHANGED <<templates, templateSteps, workflows, auditLogs, resp>>
    /\ UNCHANGED <<users, entities, budget>>

\* routes.ts:289-305: one storage.createWorkflowStep of the loop.
PostWorkflowInsert(p) ==
    /\ req[p].pc = "wc_insert"
    /\ nextId.workflowStep <= MaxWorkflowSteps
    /\ LET templateStep == req[p].snap[req[p].i]
       IN  workflowSteps' = Insert(workflowSteps, nextId.workflowStep,
               [workflowId     |-> req[p].wid,
                templateStepId |-> templateStep.id,
                name           |-> templateStep.name,
                stepOrder      |-> templateStep.stepOrder,
                status         |-> "pending"])
    /\ nextId' = [nextId EXCEPT !.workflowStep = @ + 1]
    /\ Goto(p, IF req[p].i = Len(req[p].snap)
               THEN [pc |-> "wc_audit", wid |-> req[p].wid, snap |-> req[p].snap]
               ELSE [req[p] EXCEPT !.i = @ + 1])
    /\ UNCHANGED <<templates, templateSteps, workflows, auditLogs, resp>>
    /\ UNCHANGED <<users, entities, budget>>

\* routes.ts:308-309: createAuditLog, then the 201.
PostWorkflowAudit(p) ==
    /\ req[p].pc = "wc_audit"
    /\ CreateAuditLog("create", "workflow", req[p].wid)
    /\ Respond(p, "POST workflow", 201, req[p].wid, <<>>)
    /\ Done(p)
    /\ UNCHANGED <<templates, templateSteps, workflows, workflowSteps, nextId>>
    /\ UNCHANGED <<users, entities, budget>>

\* Variant: the update of a workflow that is not there inserts it.
PatchWorkflowUpserts(p, id, body) ==
    /\ Accept(p)
    /\ workflows' = IF id \in DOMAIN workflows
                    THEN [workflows EXCEPT ![id] = Merge(@, body)]
                    ELSE Insert(workflows, id, WorkflowRow(body))
    /\ Respond(p, "PATCH workflow", 200, id, <<>>)
    /\ UNCHANGED <<templates, templateSteps, workflowSteps, auditLogs, nextId, req>>
    /\ UNCHANGED <<users, entities>>

\* routes.ts:312-319: storage.updateWorkflow(id, req.body).
PatchWorkflow(p, id, body) ==
    /\ Accept(p)
    /\ IF id \notin DOMAIN workflows
       THEN /\ Respond(p, "PATCH workflow", 404, id, <<>>)
            /\ UNCHANGED workflows
       ELSE /\ workflows' = [workflows EXCEPT ![id] = Merge(@, body)]
            /\ Respond(p, "PATCH workflow", 200, id, <<>>)
    /\ UNCHANGED <<templates, templateSteps, workflowSteps, auditLogs, nextId, req>>
    /\ UNCHANGED <<users, entities>>

\* Variant: the steps and the tasks of the workflow go with it.
DeleteWorkflowCascades(p, id) ==
    /\ Accept(p)
    /\ workflows' = Remove(workflows, {id})
    /\ workflowSteps' = Remove(workflowSteps, WorkflowStepIds(id))
    /\ entities' = [entities EXCEPT !.tasks =
                      Remove(@, { t \in DOMAIN @ : @[t].workflowId = id })]
    /\ Respond(p, "DELETE workflow", 204, id, <<>>)
    /\ UNCHANGED <<templates, templateSteps, auditLogs, nextId, req, users>>

\* routes.ts:321-324: storage.deleteWorkflow(id); no other table is touched.
DeleteWorkflow(p, id) ==
    /\ Accept(p)
    /\ workflows' = Remove(workflows, {id})
    /\ Respond(p, "DELETE workflow", 204, id, <<>>)
    /\ UNCHANGED <<templates, templateSteps, workflowSteps, auditLogs, nextId, req>>
    /\ UNCHANGED <<users, entities>>

\* routes.ts:326-329: storage.getWorkflowSteps(id).
GetWorkflowStepsRoute(p, id) ==
    /\ Accept(p)
    /\ \E steps \in GetWorkflowSteps(id) :
          Respond(p, "GET workflow steps", 200, id, steps)
    /\ UNCHANGED <<db, req>>
    /\ UNCHANGED <<users, entities>>

(***************************************************************************)
(* The template routes (routes.ts:198-254).                                *)
(***************************************************************************)
\* The row storage.createTemplateStep inserts for a step of a body.
TemplateStepRow(step, tid) ==
    [templateId |-> tid, name |-> step.name, stepOrder |-> step.stepOrder]

CreateTemplateStep(step, tid) ==
    /\ nextId.templateStep <= MaxTemplateSteps
    /\ templateSteps' = Insert(templateSteps, nextId.templateStep,
                               TemplateStepRow(step, tid))
    /\ nextId' = [nextId EXCEPT !.templateStep = @ + 1]

\* routes.ts:198-207: storage.createWorkflowTemplate(parsed.data).
PostTemplateCreate(p, steps) ==
    /\ Accept(p)
    /\ nextId.template <= MaxTemplates
    /\ LET tid == nextId.template
       IN  /\ templates' = templates \cup {tid}
           /\ nextId' = [nextId EXCEPT !.template = @ + 1]
           /\ Goto(p, IF steps = <<>>
                      THEN [pc |-> "pt_audit", tid |-> tid]
                      ELSE [pc |-> "pt_insert", tid |-> tid, steps |-> steps,
                            i |-> 1])
    /\ UNCHANGED <<templateSteps, workflows, workflowSteps, auditLogs, resp>>
    /\ UNCHANGED <<users, entities>>

\* routes.ts:208-210: one storage.createTemplateStep of the loop.
PostTemplateInsert(p) ==
    /\ req[p].pc = "pt_insert"
    /\ IF ~Storable(req[p].steps[req[p].i])
       THEN /\ Respond(p, "POST template", 500, req[p].tid, <<>>)
            /\ Done(p)
            /\ UNCHANGED <<templateSteps, nextId>>
       ELSE /\ CreateTemplateStep(req[p].steps[req[p].i], req[p].tid)
            /\ Goto(p, IF req[p].i = Len(req[p].steps)
                       THEN [pc |-> "pt_audit", tid |-> req[p].tid]
                       ELSE [req[p] EXCEPT !.i = @ + 1])
            /\ UNCHANGED resp
    /\ UNCHANGED <<templates, workflows, workflowSteps, auditLogs>>
    /\ UNCHANGED <<users, entities, budget>>

\* routes.ts:213-214: createAuditLog, then the 201.
PostTemplateAudit(p) ==
    /\ req[p].pc = "pt_audit"
    /\ CreateAuditLog("create", "template", req[p].tid)
    /\ Respond(p, "POST template", 201, req[p].tid, <<>>)
    /\ Done(p)
    /\ UNCHANGED <<templates, templateSteps, workflows, workflowSteps, nextId>>
    /\ UNCHANGED <<users, entities, budget>>

\* Variant: a PATCH of a template waits until no other PATCH of a template
\* is between its update and its response.
PatchTemplateUpdateSerialised(p, tid, body) ==
    /\ \A q \in Procs : req[q].pc \notin {"ut_delete", "ut_insert"}
    /\ Accept(p)
    /\ IF tid \notin templates
       THEN /\ Respond(p, "PATCH template", 404, tid, <<>>)
            /\ UNCHANGED req
       ELSE IF Has(body, "steps")
       THEN /\ Goto(p, [pc |-> "ut_delete", tid |-> tid, steps |-> body.steps])
            /\ UNCHANGED resp
       ELSE /\ Respond(p, "PATCH template", 200, tid, <<>>)
            /\ UNCHANGED req
    /\ UNCHANGED db
    /\ UNCHANGED <<users, entities>>

\* routes.ts:217-225, 232: storage.updateWorkflowTemplate(id, templateData);
\* body.steps is the steps array, or the body has none.
PatchTemplateUpdate(p, tid, body) ==
    /\ Accept(p)
    /\ IF tid \notin templates
       THEN /\ Respond(p, "PATCH template", 404, tid, <<>>)
            /\ UNCHANGED req
       ELSE IF Has(body, "steps")
       THEN /\ Goto(p, [pc |-> "ut_delete", tid |-> tid, steps |-> body.steps])
            /\ UNCHANGED resp
       ELSE /\ Respond(p, "PATCH template", 200, tid, <<>>)
            /\ UNCHANGED req
    /\ UNCHANGED db
    /\ UNCHANGED <<users, entities>>

\* Variant: deleting the steps of a template takes the workflow steps cloned
\* from them along.
PatchTemplateDeleteCascades(p) ==
    /\ req[p].pc = "ut_delete"
    /\ templateSteps' = Remove(templateSteps, TemplateStepIds(req[p].tid))
    /\ workflowSteps' = Remove(workflowSteps,
          { s \in DOMAIN workflowSteps :
              workflowSteps[s].templateStepId \in TemplateStepIds(req[p].tid) })
    /\ IF req[p].steps = <<>>
       THEN /\ Respond(p, "PATCH template", 200, req[p].tid, <<>>)
            /\ Done(p)
       ELSE /\ Goto(p, [pc |-> "ut_insert", tid |-> req[p].tid,
                        steps |-> req[p].steps, i |-> 1])
            /\ UNCHANGED resp
    /\ UNCHANGED <<templates, workflows, auditLogs, nextId>>
    /\ UNCHANGED <<users, entities, budget>>

\* Variant: the steps the template has are kept, and the new ones join them.
PatchTemplateDeleteKeeps(p) ==
    /\ req[p].pc = "ut_delete"
    /\ IF req[p].steps = <<>>
       THEN /\ Respond(p, "PATCH template", 200, req[p].tid, <<>>)
            /\ Done(p)
       ELSE /\ Goto(p, [pc |-> "ut_insert", tid |-> req[p].tid,
                        steps |-> req[p].steps, i |-> 1])
            /\ UNCHANGED resp
    /\ UNCHANGED <<templates, templateSteps, workflows, workflowSteps, auditLogs, nextId>>
    /\ UNCHANGED <<users, entities, budget>>

\* routes.ts:226: storage.deleteTemplateStepsByTemplateId(id).
PatchTemplateDelete(p) ==
    /\ req[p].pc = "ut_delete"
    /\ templateSteps' = Remove(templateSteps, TemplateStepIds(req[p].tid))
    /\ IF req[p].steps = <<>>
       THEN /\ Respond(p, "PATCH template", 200, req[p].tid, <<>>)
            /\ Done(p)
       ELSE /\ Goto(p, [pc |-> "ut_insert", tid |-> req[p].tid,
                        steps |-> req[p].steps, i |-> 1])
            /\ UNCHANGED resp
    /\ UNCHANGED <<templates, workflows, workflowSteps, auditLogs, nextId>>
    /\ UNCHANGED <<users, entities, budget>>

\* routes.ts:227-229, 232: one storage.createTemplateStep of the loop; the
\* response follows the last one.
PatchTemplateInsert(p) ==
    /\ req[p].pc = "ut_insert"
    /\ IF ~Storable(req[p].steps[req[p].i])
       THEN /\ Respond(p, "PATCH template", 500, req[p].tid, <<>>)
            /\ Done(p)
            /\ UNCHANGED <<templateSteps, nextId>>
       ELSE /\ CreateTemplateStep(req[p].steps[req[p].i], req[p].tid)
            /\ IF req[p].i = Len(req[p].steps)
               THEN /\ Respond(p, "PATCH template", 200, req[p].tid, <<>>)
                    /\ Done(p)
               ELSE /\ Goto(p, [req[p] EXCEPT !.i = @ + 1])
                    /\ UNCHANGED resp
    /\ UNCHANGED <<templates, workflows, workflowSteps, auditLogs>>
    /\ UNCHANGED <<users, entities, budget>>

\* routes.ts:235-236: storage.deleteTemplateStepsByTemplateId(id).
DeleteTemplateSteps(p, tid) ==
    /\ Accept(p)
    /\ templateSteps' = Remove(templateSteps, TemplateStepIds(tid))
    /\ Goto(p, [pc |-> "dt_row", tid |-> tid])
    /\ UNCHANGED <<templates, workflows, workflowSteps, auditLogs, nextId, resp>>
    /\ UNCHANGED <<users, entities>>

\* routes.ts:237-238: storage.deleteWorkflowTemplate(id), then the 204.
DeleteTemplateRow(p) ==
    /\ req[p].pc = "dt_row"
    /\ templates' = templates \ {req[p].tid}
    /\ Respond(p, "DELETE template", 204, req[p].tid, <<>>)
    /\ Done(p)
    /\ UNCHANGED <<templateSteps, workflows, workflowSteps, auditLogs, nextId>>
    /\ UNCHANGED <<users, entities, budget>>

\* routes.ts:246-254: storage.createTemplateStep(parsed.data); the template
\* id of the path is not looked up.
PostTemplateStep(p, tid, step) ==
    /\ Accept(p)
    /\ IF ~Parses(InsertTemplateStepSchema, [templateId |-> tid] @@ step)
       THEN /\ Respond(p, "POST template step", 400, 0,
                       FieldErrors(InsertTemplateStepSchema, [templateId |-> tid] @@ step))
            /\ UNCHANGED <<templateSteps, nextId>>
       ELSE /\ CreateTemplateStep(step, tid)
            /\ Respond(p, "POST template step", 201, nextId.templateStep, <<>>)
    /\ UNCHANGED <<templates, workflows, workflowSteps, auditLogs, req>>
    /\ UNCHANGED <<users, entities>>

(***************************************************************************)
(* The user routes (routes.ts:38-82).                                      *)
(***************************************************************************)
\* bcrypt.hash(password, 10): a string that carries the bcrypt prefix, never
\* the password itself (the salt, which makes every hash differ, is left
\* out).
Hash(password) == "$2a$10$" \o password

\* Variant: the user as it is stored.
KeepPassword(user) == user

\* routes.ts:12-15: the user without its password.
OmitPassword(user) == [f \in DOMAIN user \ {"password"} |-> user[f]]

\* insertUserSchema (schema.ts:182-186), for the columns the model keeps:
\* both are required, and a key that is no column of the schema is dropped.
InsertUserSchema ==
    [required |-> {"email", "password"}, columns |-> {"email", "password"}]

\* users.email is unique: another row than `id` has this email.
EmailTaken(email, id) ==
    \E u \in DOMAIN users : u # id /\ users[u].email = email

\* routes.ts:52-59: safeParse, bcrypt.hash, storage.createUser.
PostUserCreate(p, body) ==
    /\ Accept(p)
    /\ IF ~Parses(InsertUserSchema, body)
       THEN /\ Respond(p, "POST user", 400, 0, FieldErrors(InsertUserSchema, body))
            /\ UNCHANGED <<users, nextId, req>>
       ELSE LET data == ParsedData(InsertUserSchema, body)
                user == [data EXCEPT !.password = Hash(data.password)]
            IN  IF EmailTaken(user.email, 0)
                THEN /\ Respond(p, "POST user", 500, 0, <<>>)
                     /\ UNCHANGED <<users, nextId, req>>
                ELSE /\ nextId.user <= MaxUsers
                     /\ users' = Insert(users, nextId.user, user)
                     /\ nextId' = [nextId EXCEPT !.user = @ + 1]
                     /\ Goto(p, [pc |-> "uc_audit", id |-> nextId.user,
                                 user |-> [id |-> nextId.user] @@ user])
                     /\ UNCHANGED resp
    /\ UNCHANGED <<templates, templateSteps, workflows, workflowSteps, auditLogs, entities>>

\* routes.ts:60-61: createAuditLog, then the 201 with the user.
PostUserAudit(p) ==
    /\ req[p].pc = "uc_audit"
    /\ CreateAuditLog("create", "user", req[p].id)
    /\ Respond(p, "POST user", 201, req[p].id, <<OmitPassword(req[p].user)>>)
    /\ Done(p)
    /\ UNCHANGED <<templates, templateSteps, workflows, workflowSteps, nextId>>
    /\ UNCHANGED <<users, entities, budget>>

\* routes.ts:65-68: the update data, its password hashed if it is truthy.
UpdateData(body) ==
    IF Has(body, "password") /\ body.password # ""
    THEN [body EXCEPT !.password = Hash(body.password)]
    ELSE body

\* storage.updateUser: the row of id takes the columns of the data, the id
\* among them.
UpdatedUsers(id, data) ==
    LET row   == Merge(users[id], data)
        newId == IF Has(data, "id") THEN data.id ELSE id
    IN  Insert(Remove(users, {id}), newId, row)

\* routes.ts:64-73: storage.updateUser(req.params.id, updateData).  An update
\* that would give two rows one id or one email is refused by the database.
PatchUserUpdate(p, id, body) ==
    /\ Accept(p)
    /\ LET data == UpdateData(body)
       IN  IF id \notin DOMAIN users
           THEN /\ Respond(p, "PATCH user", 404, id, <<>>)
                /\ UNCHANGED <<users, req>>
           ELSE IF \/ Has(data, "id") /\ data.id # id /\ data.id \in DOMAIN users
                   \/ Has(data, "email") /\ EmailTaken(data.email, id)
           THEN /\ Respond(p, "PATCH user", 500, id, <<>>)
                /\ UNCHANGED <<users, req>>
           ELSE LET newId == IF Has(data, "id") THEN data.id ELSE id
                IN  /\ users' = UpdatedUsers(id, data)
                    /\ Goto(p, [pc |-> "uu_audit", id |-> newId,
                                user |-> [id |-> newId] @@ UpdatedUsers(id, data)[newId]])
                    /\ UNCHANGED resp
    /\ UNCHANGED <<templates, templateSteps, workflows, workflowSteps, auditLogs, nextId, entities>>

\* routes.ts:74-75: createAuditLog, then the 200 with the user.
PatchUserAudit(p) ==
    /\ req[p].pc = "uu_audit"
    /\ CreateAuditLog("update", "user", req[p].id)
    /\ Respond(p, "PATCH user", 200, req[p].id, <<OmitPassword(req[p].user)>>)
    /\ Done(p)
    /\ UNCHANGED <<templates, templateSteps, workflows, workflowSteps, nextId>>
    /\ UNCHANGED <<users, entities, budget>>

\* routes.ts:78-79: storage.deleteUser(req.params.id).
DeleteUserRow(p, id) ==
    /\ Accept(p)
    /\ users' = Remove(users, {id})
    /\ Goto(p, [pc |-> "du_audit", id |-> id])
    /\ UNCHANGED <<templates, templateSteps, workflows, workflowSteps, auditLogs, nextId, resp, entities>>

\* routes.ts:80-81: createAuditLog, then the 204.
DeleteUserAudit(p) ==
    /\ req[p].pc = "du_audit"
    /\ CreateAuditLog("delete", "user", req[p].id)
    /\ Respond(p, "DELETE user", 204, req[p].id, <<>>)
    /\ Done(p)
    /\ UNCHANGED <<templates, templateSteps, workflows, workflowSteps, nextId>>
    /\ UNCHANGED <<users, entities, budget>>

\* The arrangements of the rows of table f, each with its id.
Listings(f) ==
    { [i \in DOMAIN s |-> [id |-> s[i]] @@ f[s[i]]] :
        s \in { t \in [1..Cardinality(DOMAIN f) -> DOMAIN f] :
                  \A i, j \in DOMAIN t : i # j => t[i] # t[j] } }

\* routes.ts:38-41: storage.getUsers() (ordered by a column the model does
\* not keep), each user without its password.
GetUsers(p) ==
    /\ Accept(p)
    /\ \E list \in Listings(users) :
          Respond(p, "GET users", 200, 0, [i \in DOMAIN list |-> OmitPassword(list[i])])
    /\ UNCHANGED <<db, req, users, entities>>

\* routes.ts:43-50: storage.getUser(req.params.id).
GetUser(p, id) ==
    /\ Accept(p)
    /\ IF id \notin DOMAIN users
       THEN Respond(p, "GET user", 404, id, <<>>)
       ELSE Respond(p, "GET user", 200, id, <<OmitPassword([id |-> id] @@ users[id])>>)
    /\ UNCHANGED <<db, req, users, entities>>

(***************************************************************************)
(* The routes of departments, employees, tasks and notifications           *)
(* (routes.ts:84-176, 357-435), whose handlers differ in the table only:   *)
(* entities[kind] is the table, and the id counter of it is nextId[kind].  *)
(***************************************************************************)
\* insertDepartmentSchema, insertEmployeeSchema, insertTaskSchema and
\* insertNotificationSchema (schema.ts:188-237), for the columns the model
\* keeps.
InsertSchemaOf ==
    [departments   |-> [required |-> {"name"}, columns |-> {"name"}],
     employees     |-> [required |-> {"firstName", "departmentId"},
                        columns  |-> {"firstName", "departmentId", "status"}],
     tasks         |-> [required |-> {"workflowId", "title"},
                        columns  |-> {"workflowId", "title", "status"}],
     notifications |-> [required |-> {"userId", "title"},
                        columns  |-> {"userId", "title", "isRead"}]]

\* The column defaults (schema.ts:54, 142, 175).
DefaultsOf ==
    [departments   |-> NoBody,
     employees     |-> [status |-> "joining"],
     tasks         |-> [status |-> "pending"],
     notifications |-> [isRead |-> FALSE]]

\* The entity type of the audit rows, for the tables whose POST writes one
\* (routes.ts:106, 160).
AuditedAs == [departments |-> "department", employees |-> "employee"]

\* Variant: the body is stored as it came, and refused afterwards.
PostEntityCreateStoresFirst(p, kind, body) ==
    /\ Accept(p)
    /\ nextId[kind] <= MaxEntities
    /\ entities' = [entities EXCEPT
                       ![kind] = Insert(@, nextId[kind], body @@ DefaultsOf[kind])]
    /\ nextId' = [nextId EXCEPT ![kind] = @ + 1]
    /\ IF ~Parses(InsertSchemaOf[kind], body)
       THEN Respond(p, "POST " \o kind, 400, 0,
                    FieldErrors(InsertSchemaOf[kind], body))
       ELSE Respond(p, "POST " \o kind, 201, nextId[kind],
                    <<body @@ DefaultsOf[kind]>>)
    /\ UNCHANGED <<templates, templateSteps, workflows, workflowSteps, auditLogs, users, req>>

\* routes.ts:99-105, 153-159, 383-391, 418-426: safeParse, then
\* storage.createX(parsed.data); tasks and notifications answer at once.
PostEntityCreate(p, kind, body) ==
    /\ Accept(p)
    /\ IF ~Parses(InsertSchemaOf[kind], body)
       THEN /\ Respond(p, "POST " \o kind, 400, 0,
                       FieldErrors(InsertSchemaOf[kind], body))
            /\ UNCHANGED <<entities, nextId, req>>
       ELSE LET id  == nextId[kind]
                row == ParsedData(InsertSchemaOf[kind], body) @@ DefaultsOf[kind]
            IN  /\ id <= MaxEntities
                /\ entities' = [entities EXCEPT ![kind] = Insert(@, id, row)]
                /\ nextId' = [nextId EXCEPT ![kind] = @ + 1]
                /\ IF kind \in DOMAIN AuditedAs
                   THEN /\ Goto(p, [pc |-> "ec_audit", kind |-> kind, id |-> id,
                                    row |-> row])
                        /\ UNCHANGED resp
                   ELSE /\ Respond(p, "POST " \o kind, 201, id, <<row>>)
                        /\ UNCHANGED req
    /\ UNCHANGED <<templates, templateSteps, workflows, workflowSteps, auditLogs, users>>

\* routes.ts:106-107, 160-161: createAuditLog, then the 201.
PostEntityAudit(p) ==
    /\ req[p].pc = "ec_audit"
    /\ CreateAuditLog("create", AuditedAs[req[p].kind], req[p].id)
    /\ Respond(p, "POST " \o req[p].kind, 201, req[p].id, <<req[p].row>>)
    /\ Done(p)
    /\ UNCHANGED <<templates, templateSteps, workflows, workflowSteps, nextId>>
    /\ UNCHANGED <<users, entities, budget>>

\* routes.ts:90-97, 144-151, 374-381: storage.getX(id).
GetEntity(p, kind, id) ==
    /\ Accept(p)
    /\ IF id \in DOMAIN entities[kind]
       THEN Respond(p, "GET " \o kind, 200, id, <<entities[kind][id]>>)
       ELSE Respond(p, "GET " \o kind, 404, id, <<>>)
    /\ UNCHANGED <<db, req, users, entities>>

\* routes.ts:110-117, 164-171, 393-400: storage.updateX(id, req.body).
PatchEntity(p, kind, id, body) ==
    /\ Accept(p)
    /\ IF id \in DOMAIN entities[kind]
       THEN /\ entities' = [entities EXCEPT ![kind][id] = Merge(@, body)]
            /\ Respond(p, "PATCH " \o kind, 200, id, <<entities'[kind][id]>>)
       ELSE /\ Respond(p, "PATCH " \o kind, 404, id, <<>>)
            /\ UNCHANGED entities
    /\ UNCHANGED <<db, req, users>>

\* routes.ts:428-435: storage.markNotificationRead(id).
MarkNotificationRead(p, id) ==
    /\ Accept(p)
    /\ IF id \in DOMAIN entities.notifications
       THEN /\ entities' = [entities EXCEPT !.notifications[id].isRead = TRUE]
            /\ Respond(p, "PATCH notifications read", 200, id,
                       <<entities'.notifications[id]>>)
       ELSE /\ Respond(p, "PATCH notifications read", 404, id, <<>>)
            /\ UNCHANGED entities
    /\ UNCHANGED <<db, req, users>>

\* Variant: the delete of a row that is not there is answered 404.
DeleteEntityChecked(p, kind, id) ==
    /\ Accept(p)
    /\ entities' = [entities EXCEPT ![kind] = Remove(@, {id})]
    /\ IF id \in DOMAIN entities[kind]
       THEN Respond(p, "DELETE " \o kind, 204, id, <<>>)
       ELSE Respond(p, "DELETE " \o kind, 404, id, <<>>)
    /\ UNCHANGED <<db, req, users>>

\* routes.ts:119-122, 173-176, 402-405: storage.deleteX(id), then the 204.
DeleteEntity(p, kind, id) ==
    /\ Accept(p)
    /\ entities' = [entities EXCEPT ![kind] = Remove(@, {id})]
    /\ Respond(p, "DELETE " \o kind, 204, id, <<>>)
    /\ UNCHANGED <<db, req, users>>

\* employeeStatusEnum (schema.ts:8).
EmployeeStatus == {"joining", "active", "moving", "leaving", "departed"}

\* `if (filters?.x)` of getEmployees (replit.md:307, 310): the filter is
\* there and is not the empty string (written 0 for `departmentId=`).
Filters(filters, f) ==
    /\ Has(filters, f)
    /\ filters[f] # (IF f = "status" THEN "" ELSE 0)

\* Variant: an employee that meets one of the filters is selected.
SelectedByAny(filters) ==
    { e \in DOMAIN entities.employees :
        \/ ~Filters(filters, "status") /\ ~Filters(filters, "departmentId")
        \/ /\ Filters(filters, "status")
           /\ entities.employees[e].status = filters.status
        \/ /\ Filters(filters, "departmentId")
           /\ entities.employees[e].departmentId = filters.departmentId }

\* The employees the WHERE clause of getEmployees selects (replit.md:306-315).
Selected(filters) ==
    { e \in DOMAIN entities.employees :
        /\ Filters(filters, "status") =>
              entities.employees[e].status = filters.status
        /\ Filters(filters, "departmentId") =>
              entities.employees[e].departmentId = filters.departmentId }

\* The arrangements of the rows `ids` of table f, each with its id.
ListingsOf(f, ids) ==
    { [i \in DOMAIN s |-> [id |-> s[i]] @@ f[s[i]]] :
        s \in { t \in [1..Cardinality(ids) -> ids] :
                  \A i, j \in DOMAIN t : i # j => t[i] # t[j] } }

\* routes.ts:125-132: storage.getEmployees({status, departmentId}), ordered
\* by a column the model does not keep.  A status that is no member of the
\* enum is refused by the database when it is compared with the column.
GetEmployees(p, filters) ==
    /\ Accept(p)
    /\ IF Filters(filters, "status") /\ filters.status \notin EmployeeStatus
       THEN Respond(p, "GET employees", 500, 0, <<>>)
       ELSE \E rows \in ListingsOf(entities.employees, Selected(filters)) :
               Respond(p, "GET employees", 200, 0, rows)
    /\ UNCHANGED <<db, req, users, entities>>

(***************************************************************************)
(* GET /api/templates/:id and GET /api/workflows/:id (routes.ts:188-196,   *)
(* 268-277).                                                               *)
(***************************************************************************)
\* routes.ts:188-193: storage.getWorkflowTemplate(id).
GetTemplate(p, id) ==
    /\ Accept(p)
    /\ IF id \in templates
       THEN /\ Goto(p, [pc |-> "gt_steps", tid |-> id])
            /\ UNCHANGED resp
       ELSE /\ Respond(p, "GET template", 404, id, <<>>)
            /\ UNCHANGED req
    /\ UNCHANGED <<db, users, entities>>

\* routes.ts:194-195: storage.getTemplateSteps(id), then the template with
\* its steps.
GetTemplateRead(p) ==
    /\ req[p].pc = "gt_steps"
    /\ \E steps \in GetTemplateSteps(req[p].tid) :
          Respond(p, "GET template", 200, req[p].tid, steps)
    /\ Done(p)
    /\ UNCHANGED <<db, users, entities, budget>>

\* routes.ts:268-273: storage.getWorkflow(id).
GetWorkflow(p, id) ==
    /\ Accept(p)
    /\ IF id \in DOMAIN workflows
       THEN /\ Goto(p, [pc |-> "gw_steps", wid |-> id])
            /\ UNCHANGED resp
       ELSE /\ Respond(p, "GET workflow", 404, id, <<>>)
            /\ UNCHANGED req
    /\ UNCHANGED <<db, users, entities>>

\* routes.ts:274: storage.getWorkflowSteps(id).
GetWorkflowRead(p) ==
    /\ req[p].pc = "gw_steps"
    /\ \E steps \in GetWorkflowSteps(req[p].wid) :
          Goto(p, [pc |-> "gw_employee", wid |-> req[p].wid, steps |-> steps])
    /\ UNCHANGED <<db, resp, users, entities, budget>>

\* routes.ts:275-276: storage.getEmployee(workflow.employeeId), then the
\* workflow with its steps (the employee is left out of the body: the
\* workflow rows of the model keep no employeeId).
GetWorkflowEmployee(p) ==
    /\ req[p].pc = "gw_employee"
    /\ Respond(p, "GET workflow", 200, req[p].wid, req[p].steps)
    /\ Done(p)
    /\ UNCHANGED <<db, users, entities, budget>>

(***************************************************************************)
(* POST /api/seed (routes.ts:474-800): the demonstration dataset, inserted *)
(* statement after statement.  SeedProgram lists the storage calls of the  *)
(* handler in their order; the request keeps the index of its next call,   *)
(* the ids of the departments, templates and workflows it created, and the *)
(* step list it read last.                                                 *)
(***************************************************************************)
SeedTemplate(steps) ==
    <<[op |-> "template"]>> \o [k \in 1..steps |-> [op |-> "templateStep", stepOrder |-> k]]

SeedWorkflow(k, status, progress, statuses) ==
    << [op |-> "workflow", template |-> k, status |-> status, progress |-> progress],
       [op |-> "getTemplateSteps", template |-> k],
       [op |-> "workflowStep", statuses |-> statuses] >>

SeedTask(w, index, status) ==
    << [op |-> "getWorkflowSteps", workflow |-> w, index |-> index],
       [op |-> "task", workflow |-> w, status |-> status] >>

SeedProgram ==
    << [op |-> "department", name |-> "Human Resources"],
       [op |-> "department", name |-> "Information Technology"],
       [op |-> "department", name |-> "Sales"],
       [op |-> "department", name |-> "Engineering"],
       [op |-> "user", email |-> "admin@company.com", password |-> "admin123"],
       [op |-> "user", email |-> "hr.manager@company.com", password |-> "hr123"],
       [op |-> "employee", firstName |-> "John", department |-> 4, status |-> "joining"],
       [op |-> "employee", firstName |-> "Alice", department |-> 3, status |-> "active"],
       [op |-> "employee", firstName |-> "Bob", department |-> 2, status |-> "moving"],
       [op |-> "employee", firstName |-> "Carol", department |-> 3, status |-> "leaving"] >>
    \o SeedTemplate(4) \o SeedTemplate(2) \o SeedTemplate(4)
    \o SeedWorkflow(1, "in_progress", 25, <<"completed", "in_progress">>)
    \o SeedWorkflow(2, "pending", 0, <<>>)
    \o SeedWorkflow(3, "in_progress", 50, <<"completed", "completed">>)
    \o SeedTask(1, 2, "pending") \o SeedTask(1, 2, "in_progress")
    \o SeedTask(3, 3, "pending")

\* The request before its first storage call.
SeedStart ==
    [pc |-> "seed", i |-> 1, departments |-> <<>>, templates |-> <<>>,
     workflows |-> <<>>, snap |-> <<>>, j |-> 1]

\* The request r after its call i: the next call, or the response after the
\* last one (routes.ts:796-799).
SeedAdvance(p, r) ==
    IF r.i = Len(SeedProgram)
    THEN /\ Respond(p, "POST seed", 200, 0, <<>>)
         /\ Done(p)
    ELSE /\ Goto(p, [r EXCEPT !.i = @ + 1])
         /\ UNCHANGED resp

\* The call is refused by the database: the error leaves the handler.
SeedThrows(p) ==
    /\ Respond(p, "POST seed", 500, 0, <<>>)
    /\ Done(p)

\* The storage call i of the request r.
SeedCall(p, r) ==
    LET s == SeedProgram[r.i]
    IN  CASE s.op = "department" ->
               /\ entities' = [entities EXCEPT !.departments =
                                 Insert(@, nextId.departments, [name |-> s.name])]
               /\ nextId' = [nextId EXCEPT !.departments = @ + 1]
               /\ SeedAdvance(p, [r EXCEPT !.departments = Append(@, nextId.departments)])
               /\ UNCHANGED <<templates, templateSteps, workflows, workflowSteps, users>>
          [] s.op = "user" ->
               IF EmailTaken(s.email, 0)
               THEN /\ SeedThrows(p)
                    /\ UNCHANGED <<templates, templateSteps, workflows, workflowSteps,
                                   users, entities, nextId>>
               ELSE /\ users' = Insert(users, nextId.user,
                                       [email |-> s.email, password |-> Hash(s.password)])
                    /\ nextId' = [nextId EXCEPT !.user = @ + 1]
                    /\ SeedAdvance(p, r)
                    /\ UNCHANGED <<templates, templateSteps, workflows, workflowSteps, entities>>
          [] s.op = "employee" ->
               /\ entities' = [entities EXCEPT !.employees =
                                 Insert(@, nextId.employees,
                                        [firstName    |-> s.firstName,
                                         departmentId |-> r.departments[s.department],
                                         status       |-> s.status])]
               /\ nextId' = [nextId EXCEPT !.employees = @ + 1]
               /\ SeedAdvance(p, r)
               /\ UNCHANGED <<templates, templateSteps, workflows, workflowSteps, users>>
          [] s.op = "template" ->
               /\ templates' = templates \cup {nextId.template}
               /\ nextId' = [nextId EXCEPT !.template = @ + 1]
               /\ SeedAdvance(p, [r EXCEPT !.templates = Append(@, nextId.template)])
               /\ UNCHANGED <<templateSteps, workflows, workflowSteps, users, entities>>
          [] s.op = "templateStep" ->
               /\ templateSteps' = Insert(templateSteps, nextId.templateStep,
                     [templateId |-> r.templates[Len(r.templates)],
                      name |-> "S", stepOrder |-> s.stepOrder])
               /\ nextId' = [nextId EXCEPT !.templateStep = @ + 1]
               /\ SeedAdvance(p, r)
               /\ UNCHANGED <<templates, workflows, workflowSteps, users, entities>>
          [] s.op = "workflow" ->
               /\ workflows' = Insert(workflows, nextId.workflow,
                     [templateId |-> r.templates[s.template], status |-> s.status,
                      progress |-> s.progress, completedAt |-> NULL])
               /\ nextId' = [nextId EXCEPT !.workflow = @ + 1]
               /\ SeedAdvance(p, [r EXCEPT !.workflows = Append(@, nextId.workflow)])
               /\ UNCHANGED <<templates, templateSteps, workflowSteps, users, entities>>
          [] s.op = "getTemplateSteps" ->
               /\ \E snap \in GetTemplateSteps(r.templates[s.template]) :
                     SeedAdvance(p, [r EXCEPT !.snap = snap, !.j = 1,
                                              !.i = IF snap = <<>> THEN @ + 1 ELSE @])
               /\ UNCHANGED <<templates, templateSteps, workflows, workflowSteps,
                              users, entities, nextId>>
          [] s.op = "workflowStep" ->
               /\ workflowSteps' = Insert(workflowSteps, nextId.workflowStep,
                     [workflowId     |-> r.workflows[Len(r.workflows)],
                      templateStepId |-> r.snap[r.j].id,
                      name           |-> r.snap[r.j].name,
                      stepOrder      |-> r.snap[r.j].stepOrder,
                      status         |-> IF r.j <= Len(s.statuses)
                                         THEN s.statuses[r.j] ELSE "pending"])
               /\ nextId' = [nextId EXCEPT !.workflowStep = @ + 1]
               /\ IF r.j = Len(r.snap)
                  THEN SeedAdvance(p, r)
                  ELSE /\ Goto(p, [r EXCEPT !.j = @ + 1])
                       /\ UNCHANGED resp
               /\ UNCHANGED <<templates, templateSteps, workflows, users, entities>>
          [] s.op = "getWorkflowSteps" ->
               /\ \E snap \in GetWorkflowSteps(r.workflows[s.workflow]) :
                     IF Len(snap) < s.index
                     THEN SeedThrows(p)
                     ELSE SeedAdvance(p, [r EXCEPT !.snap = snap])
               /\ UNCHANGED <<templates, templateSteps, workflows, workflowSteps,
                              users, entities, nextId>>
          [] s.op = "task" ->
               /\ entities' = [entities EXCEPT !.tasks =
                     Insert(@, nextId.tasks,
                            [workflowId |-> r.workflows[s.workflow], title |-> "t",
                             status |-> s.status])]
               /\ nextId' = [nextId EXCEPT !.tasks = @ + 1]
               /\ SeedAdvance(p, r)
               /\ UNCHANGED <<templates, templateSteps, workflows, workflowSteps, users>>

\* routes.ts:474-475: the request arrives and makes its first call.
PostSeed(p) ==
    /\ Accept(p)
    /\ SeedCall(p, SeedStart)
    /\ UNCHANGED auditLogs

\* routes.ts:476-799: the next call of a request under way.
SeedStatement(p) ==
    /\ req[p].pc = "seed"
    /\ SeedCall(p, req[p])
    /\ UNCHANGED <<auditLogs, budget>>

(***************************************************************************)
(* asyncHandler (routes.ts:17-20): a statement's promise may reject (the   *)
(* database is unreachable, the statement is refused); the handler stops   *)
(* where it stands, what it wrote stays written, and the error goes to     *)
(* Express (a 500).                                                        *)
(***************************************************************************)
RouteOf(r) ==
    CASE r.pc \in {"ps_read", "ps_write"} -> "PATCH step"
      [] r.pc \in {"wc_read", "wc_insert", "wc_audit"} -> "POST workflow"
      [] r.pc \in {"pt_insert", "pt_audit"} -> "POST template"
      [] r.pc \in {"ut_delete", "ut_insert"} -> "PATCH template"
      [] r.pc \in {"dt_row"} -> "DELETE template"
      [] r.pc \in {"uc_audit"} -> "POST user"
      [] r.pc \in {"uu_audit"} -> "PATCH user"
      [] r.pc \in {"du_audit"} -> "DELETE user"
      [] r.pc \in {"ec_audit"} -> "POST " \o r.kind
      [] r.pc \in {"gt_steps"} -> "GET template"
      [] r.pc \in {"seed"} -> "POST seed"
      [] r.pc \in {"gw_steps", "gw_employee"} -> "GET workflow"

RequestId(r) ==
    CASE r.pc \in {"ps_read", "ps_write", "uc_audit", "uu_audit", "du_audit",
                   "ec_audit"} -> r.id
      [] r.pc \in {"wc_read", "wc_insert", "wc_audit", "gw_steps", "gw_employee"} -> r.wid
      [] r.pc \in {"seed"} -> 0
      [] OTHER -> r.tid

\* Variant: a failed request takes back the workflow it was creating and the
\* steps of it.
StatementFailsRollsBack(p) ==
    /\ req[p] # Idle
    /\ Respond(p, RouteOf(req[p]), 500, RequestId(req[p]), <<>>)
    /\ Done(p)
    /\ IF req[p].pc \in {"wc_read", "wc_insert", "wc_audit"}
       THEN /\ workflows' = Remove(workflows, {req[p].wid})
            /\ workflowSteps' = Remove(workflowSteps, WorkflowStepIds(req[p].wid))
            /\ UNCHANGED <<templates, templateSteps, auditLogs, nextId>>
       ELSE UNCHANGED db
    /\ UNCHANGED <<users, entities, budget>>

StatementFails(p) ==
    /\ req[p] # Idle
    /\ Respond(p, RouteOf(req[p]), 500, RequestId(req[p]), <<>>)
    /\ Done(p)
    /\ UNCHANGED db
    /\ UNCHANGED <<users, entities, budget>>

(***************************************************************************)
(* The requests the clients send.                                          *)
(***************************************************************************)
StepA1 == [name |-> "A", stepOrder |-> 1]
StepA2 == [name |-> "A", stepOrder |-> 2]
StepB1 == [name |-> "B", stepOrder |-> 1]
StepB2 == [name |-> "B", stepOrder |-> 2]

\* The steps arrays of the template bodies.
StepArrays == { <<>>, <<StepB2, StepA1>>, <<StepA1, StepB1>> }

\* A step without the name a step must have, and the steps arrays of the
\* bodies of POST /api/templates: the second step of the last one is it.
StepNoName == [stepOrder |-> 2]
NewTemplateStepArrays == StepArrays \cup { <<StepA1, StepNoName>> }

\* The ids the requests name: those of the rows there can be, and one more.
TemplateIds == 1..(MaxTemplates + 1)
WorkflowIds == 1..(MaxWorkflows + 1)

\* Bodies of PATCH /api/templates/:id.
TemplateBodies == { NoBody } \cup { [steps |-> s] : s \in StepArrays }

\* Bodies of POST /api/workflows (the validated columns the model keeps).
NewWorkflowBodies == { NoBody } \cup { [templateId |-> t] : t \in TemplateIds }

\* Bodies of PATCH /api/workflows/:id.
WorkflowBodies ==
    { NoBody, [progress |-> 150], [status |-> "cancelled"],
      [status |-> "blocked"],
      [status |-> "pending", progress |-> 0, completedAt |-> NULL] }

\* Bodies of PATCH /api/workflow-steps/:id.
StepBodies == { NoBody } \cup { [status |-> s] : s \in StepStatus }

RaceStepBodies ==
    { [status |-> "completed"], [status |-> "pending"], [workflowId |-> 2] }

\* The tables that share the plain create, read, update and delete handlers.
EntityKinds == {"departments", "employees", "tasks", "notifications"}

\* The first id of every table.
FirstIds ==
    [template |-> 1, templateStep |-> 1, workflow |-> 1, workflowStep |-> 1,
     user |-> 1, departments |-> 1, employees |-> 1, tasks |-> 1,
     notifications |-> 1]

EmptyDatabase ==
    /\ templates = {}
    /\ templateSteps = <<>>
    /\ workflows = <<>>
    /\ workflowSteps = <<>>
    /\ auditLogs = {}
    /\ nextId = FirstIds
    /\ users = <<>>
    /\ entities = [k \in EntityKinds |-> <<>>]

\* The database after POST /api/templates with n steps (stepOrder 1..n) and
\* POST /api/workflows from that template, on the empty database.
Instantiated(n) ==
    /\ templates = {1}
    /\ templateSteps = [i \in 1..n |->
                          [templateId |-> 1, name |-> "A", stepOrder |-> i]]
    /\ workflows = 1 :> [templateId |-> 1, status |-> "pending",
                         progress |-> 0, completedAt |-> NULL]
    /\ workflowSteps = [i \in 1..n |->
                          [workflowId |-> 1, templateStepId |-> i,
                           name |-> "A", stepOrder |-> i, status |-> "pending"]]
    /\ auditLogs = { [action |-> "create", entityType |-> "template", entityId |-> 1],
                     [action |-> "create", entityType |-> "workflow", entityId |-> 1] }
    /\ nextId = [FirstIds EXCEPT !.template = 2, !.templateStep = n + 1,
                                  !.workflow = 2, !.workflowStep = n + 1]
    /\ users = <<>>
    /\ entities = [k \in EntityKinds |-> <<>>]

\* No response sent yet.
NoResponse == [route |-> "none", status |-> 0, id |-> 0, body |-> <<>>]

NoRequest ==
    /\ req = [p \in Procs |-> Idle]
    /\ resp = NoResponse
    /\ budget = Unlimited

(***************************************************************************)
(* Spec: the template and workflow routes from the empty database, one     *)
(* request at a time (a request runs to its response before the next one   *)
(* starts).                                                                *)
(***************************************************************************)
Init == EmptyDatabase /\ NoRequest

TemplateRoutes(p) ==
    \/ \E s \in NewTemplateStepArrays : PostTemplateCreate(p, s)
    \/ PostTemplateInsert(p)
    \/ PostTemplateAudit(p)
    \/ \E t \in TemplateIds, b \in TemplateBodies : PatchTemplateUpdate(p, t, b)
    \/ PatchTemplateDelete(p)
    \/ PatchTemplateInsert(p)
    \/ \E t \in TemplateIds : DeleteTemplateSteps(p, t)
    \/ DeleteTemplateRow(p)
    \/ \E t \in 1..MaxTemplates : PostTemplateStep(p, t, StepA2)

WorkflowRoutes(p) ==
    \/ \E b \in NewWorkflowBodies : PostWorkflowCreate(p, b)
    \/ PostWorkflowRead(p)
    \/ PostWorkflowInsert(p)
    \/ PostWorkflowAudit(p)
    \/ \E w \in WorkflowIds : DeleteWorkflow(p, w)
    \/ \E w \in WorkflowIds : GetWorkflowStepsRoute(p, w)

Next ==
    \/ TemplateRoutes(1)
    \/ WorkflowRoutes(1)
    \/ StatementFails(1)

Spec == Init /\ [][Next]_vars

(***************************************************************************)
(* SpecSeq: the step and workflow updates on a workflow instantiated from  *)
(* a template of 1..MaxSeqSteps steps, one request at a time.              *)
(***************************************************************************)
InitSeq == (\E n \in 1..MaxSeqSteps : Instantiated(n)) /\ NoRequest

StepRoutes(p, ids, bodies) ==
    \/ \E s \in ids, b \in bodies : PatchStepUpdate(p, s, b)
    \/ PatchStepRead(p)
    \/ PatchStepWrite(p)

NextSeq ==
    \/ StepRoutes(1, 1..(MaxSeqSteps + 1), StepBodies)
    \/ \E w \in WorkflowIds, b \in WorkflowBodies : PatchWorkflow(1, w, b)
    \/ \E w \in WorkflowIds : DeleteWorkflow(1, w)
    \/ StatementFails(1)

SpecSeq == InitSeq /\ [][NextSeq]_vars

(***************************************************************************)
(* SpecRace: step updates of two requests whose statements interleave, on  *)
(* a workflow instantiated from a template of 1..MaxRaceSteps steps.       *)
(***************************************************************************)
InitRace == (\E n \in 1..MaxRaceSteps : Instantiated(n)) /\ NoRequest

NextRace == \E p \in Procs : StepRoutes(p, 1..MaxRaceSteps, RaceStepBodies)

SpecRace == InitRace /\ [][NextRace]_vars

(***************************************************************************)
(* SpecRound: the steps of a workflow of 1..MaxRoundTotal steps completed  *)
(* one after the other in their order, one request at a time.              *)
(***************************************************************************)
InitRound == (\E n \in 1..MaxRoundTotal : Instantiated(n)) /\ NoRequest

\* The first step of the workflow that is not completed yet.
NextStep(wid) ==
    { s \in WorkflowStepIds(wid) :
        /\ workflowSteps[s].status # "completed"
        /\ \A t \in WorkflowStepIds(wid) :
              t < s => workflowSteps[t].status = "completed" }

NextRound == StepRoutes(1, NextStep(1), {[status |-> "completed"]})

SpecRound == InitRound /\ [][NextRound]_vars

(***************************************************************************)
(* SpecUsers: the user routes from the empty database, one request at a    *)
(* time.                                                                   *)
(***************************************************************************)
\* The ids the requests name: those handed out so far (an id is a random
\* uuid: no client names one before the database has drawn it).
UserIds == 1..(nextId.user - 1)

\* Bodies of POST /api/users: two users, the second with an empty password,
\* and a body without a password.
NewUserBodies ==
    { [email |-> "a", password |-> "pw"], [email |-> "b", password |-> ""],
      [email |-> "b"] }

\* Bodies of PATCH /api/users/:id.
UserBodies ==
    { NoBody, [password |-> ""], [password |-> "new"] }
      \cup { [id |-> u] : u \in UserIds }

UserRoutes(p) ==
    \/ GetUsers(p)
    \/ \E u \in UserIds : GetUser(p, u)
    \/ \E b \in NewUserBodies : PostUserCreate(p, b)
    \/ PostUserAudit(p)
    \/ \E u \in UserIds, b \in UserBodies : PatchUserUpdate(p, u, b)
    \/ PatchUserAudit(p)
    \/ \E u \in UserIds : DeleteUserRow(p, u)
    \/ DeleteUserAudit(p)

NextUsers ==
    \/ UserRoutes(1)
    \/ StatementFails(1)

InitUsers == EmptyDatabase /\ NoRequest

SpecUsers == InitUsers /\ [][NextUsers]_vars

(***************************************************************************)
(* SpecCrud: the create routes, the routes that read or update one row by  *)
(* its id, and DELETE /api/workflows/:id, on a database that has one       *)
(* template with one step; MaxRequests requests, one at a time.            *)
(***************************************************************************)
\* The database after POST /api/templates with one step, on the empty
\* database.
TemplateOnly ==
    /\ templates = {1}
    /\ templateSteps = <<[templateId |-> 1, name |-> "A", stepOrder |-> 1]>>
    /\ workflows = <<>>
    /\ workflowSteps = <<>>
    /\ auditLogs = { [action |-> "create", entityType |-> "template", entityId |-> 1] }
    /\ nextId = [FirstIds EXCEPT !.template = 2, !.templateStep = 2]
    /\ users = <<>>
    /\ entities = [k \in EntityKinds |-> <<>>]

FewRequests ==
    /\ req = [p \in Procs |-> Idle]
    /\ resp = NoResponse
    /\ budget = MaxRequests

InitCrud == TemplateOnly /\ FewRequests

\* The ids the requests name: those of the rows there can be, and one more.
CrudUserIds == 1..(MaxUsers + 1)
EntityIds == 1..(MaxEntities + 1)
WorkflowStepIdsNamed == 1..(MaxWorkflowSteps + 1)

\* Bodies of the POST of each plain table: one that lacks a required
\* column, one that has them all.
NewEntityBodies ==
    [departments   |-> { NoBody, [name |-> "d"] },
     employees     |-> { NoBody, [firstName |-> "e", departmentId |-> 1] },
     tasks         |-> { [title |-> "t"], [workflowId |-> 1, title |-> "t"] },
     notifications |-> { [title |-> "n"], [userId |-> 1, title |-> "n"] }]

\* Bodies of the PATCH of each plain table that has one.
EntityBodies ==
    [departments |-> { [name |-> "d2"] },
     employees   |-> { [firstName |-> "e2"] },
     tasks       |-> { [status |-> "completed"] }]

\* Bodies of POST /api/templates/:id/steps.
NewStepBodies == { StepA2, StepNoName }

CrudRoutes(p) ==
    \/ \E b \in NewUserBodies : PostUserCreate(p, b)
    \/ PostUserAudit(p)
    \/ \E u \in CrudUserIds : GetUser(p, u)
    \/ \E u \in CrudUserIds : PatchUserUpdate(p, u, [password |-> "new"])
    \/ PatchUserAudit(p)
    \/ \E k \in EntityKinds : \E b \in NewEntityBodies[k] : PostEntityCreate(p, k, b)
    \/ PostEntityAudit(p)
    \/ \E k \in DOMAIN EntityBodies, i \in EntityIds : GetEntity(p, k, i)
    \/ \E k \in DOMAIN EntityBodies, i \in EntityIds :
          \E b \in EntityBodies[k] : PatchEntity(p, k, i, b)
    \/ \E i \in EntityIds : MarkNotificationRead(p, i)
    \/ \E t \in TemplateIds : GetTemplate(p, t)
    \/ GetTemplateRead(p)
    \/ \E t \in TemplateIds, b \in TemplateBodies : PatchTemplateUpdate(p, t, b)
    \/ PatchTemplateDelete(p)
    \/ PatchTemplateInsert(p)
    \/ \E t \in 1..MaxTemplates, s \in NewStepBodies : PostTemplateStep(p, t, s)
    \/ \E b \in NewWorkflowBodies : PostWorkflowCreate(p, b)
    \/ PostWorkflowRead(p)
    \/ PostWorkflowInsert(p)
    \/ PostWorkflowAudit(p)
    \/ \E w \in WorkflowIds : GetWorkflow(p, w)
    \/ GetWorkflowRead(p)
    \/ GetWorkflowEmployee(p)
    \/ \E w \in WorkflowIds : PatchWorkflow(p, w, [status |-> "cancelled"])
    \/ \E w \in WorkflowIds : DeleteWorkflow(p, w)
    \/ StepRoutes(p, WorkflowStepIdsNamed, { [status |-> "completed"] })

NextCrud ==
    \/ CrudRoutes(1)
    \/ StatementFails(1)

SpecCrud == InitCrud /\ [][NextCrud]_vars

(***************************************************************************)
(* SpecDelete: the DELETE routes and the creates that give them rows, on a *)
(* database that has one template with one step; MaxRequests requests, one *)
(* at a time.                                                              *)
(***************************************************************************)
\* The tables of the plain routes that have a DELETE.
DeletableKinds == {"departments", "employees", "tasks"}

DeleteRoutes(p) ==
    \/ \E b \in NewUserBodies : PostUserCreate(p, b)
    \/ PostUserAudit(p)
    \/ \E k \in DeletableKinds : \E b \in NewEntityBodies[k] : PostEntityCreate(p, k, b)
    \/ PostEntityAudit(p)
    \/ \E b \in NewWorkflowBodies : PostWorkflowCreate(p, b)
    \/ PostWorkflowRead(p)
    \/ PostWorkflowInsert(p)
    \/ PostWorkflowAudit(p)
    \/ \E u \in CrudUserIds : DeleteUserRow(p, u)
    \/ DeleteUserAudit(p)
    \/ \E k \in DeletableKinds, i \in EntityIds : DeleteEntity(p, k, i)
    \/ \E t \in TemplateIds : DeleteTemplateSteps(p, t)
    \/ DeleteTemplateRow(p)
    \/ \E w \in WorkflowIds : DeleteWorkflow(p, w)

NextDelete ==
    \/ DeleteRoutes(1)
    \/ StatementFails(1)

InitDelete == TemplateOnly /\ FewRequests

SpecDelete == InitDelete /\ [][NextDelete]_vars

(***************************************************************************)
(* SpecSeed: MaxSeeds calls of POST /api/seed from the empty database, one *)
(* at a time.                                                              *)
(***************************************************************************)
FewSeeds ==
    /\ req = [p \in Procs |-> Idle]
    /\ resp = NoResponse
    /\ budget = MaxSeeds

InitSeed == EmptyDatabase /\ FewSeeds

NextSeed ==
    \/ PostSeed(1)
    \/ SeedStatement(1)
    \/ StatementFails(1)

SpecSeed == InitSeed /\ [][NextSeed]_vars

(***************************************************************************)
(* SpecEmployees: GET /api/employees with its filters, and the PATCH of an *)
(* employee, on the tables of 0..MaxEmployees employees that POST          *)
(* /api/employees can have stored; one request at a time.                  *)
(***************************************************************************)
\* The rows of the stored employees: two statuses, two departments.
EmployeeRows ==
    [firstName : {"e"}, departmentId : {1, 2}, status : {"joining", "active"}]

InitEmployees ==
    /\ templates = {}
    /\ templateSteps = <<>>
    /\ workflows = <<>>
    /\ workflowSteps = <<>>
    /\ auditLogs = {}
    /\ users = <<>>
    /\ \E n \in 0..MaxEmployees :
          /\ \E rows \in [1..n -> EmployeeRows] :
                entities = [k \in EntityKinds |->
                              IF k = "employees" THEN rows ELSE <<>>]
          /\ nextId = [FirstIds EXCEPT !.employees = n + 1]
    /\ NoRequest

\* The query strings of GET /api/employees: each filter absent, empty
\* (`departmentId=` is written 0), or a value; "retired" is no employee
\* status.
EmployeeFilters ==
    { [f \in fs |-> IF f = "status" THEN s ELSE d] :
        fs \in SUBSET {"status", "departmentId"},
        s \in {"", "joining", "active", "retired"},
        d \in {0, 1, 2} }

NextEmployees ==
    \/ \E f \in EmployeeFilters : GetEmployees(1, f)
    \/ \E i \in 1..MaxEmployees :
          PatchEntity(1, "employees", i, [status |-> "active"])

SpecEmployees == InitEmployees /\ [][NextEmployees]_vars

(***************************************************************************)
(* SpecPair: two PATCH /api/workflow-steps/:id requests with status        *)
(* "completed", one from each process and no other request, on two steps   *)
(* that are not completed of a workflow of 2..MaxPairSteps steps of which  *)
(* some are completed already; their statements interleave.                *)
(***************************************************************************)
\* The database after the steps `done` of a workflow of n steps were
\* completed one request after the other.
PartlyCompleted(n, done) ==
    /\ templates = {1}
    /\ templateSteps = [i \in 1..n |->
                          [templateId |-> 1, name |-> "A", stepOrder |-> i]]
    /\ workflows = 1 :> Merge([templateId |-> 1, status |-> "pending",
                               progress |-> 0, completedAt |-> NULL],
                              WorkflowUpdate(Progress(Cardinality(done), n)))
    /\ workflowSteps = [i \in 1..n |->
                          [workflowId |-> 1, templateStepId |-> i,
                           name |-> "A", stepOrder |-> i,
                           status |-> IF i \in done THEN "completed"
                                                    ELSE "pending"]]
    /\ auditLogs = { [action |-> "create", entityType |-> "template", entityId |-> 1],
                     [action |-> "create", entityType |-> "workflow", entityId |-> 1] }
    /\ nextId = [FirstIds EXCEPT !.template = 2, !.templateStep = n + 1,
                                  !.workflow = 2, !.workflowStep = n + 1]
    /\ users = <<>>
    /\ entities = [k \in EntityKinds |-> <<>>]

CompletedSteps(wid) ==
    { s \in WorkflowStepIds(wid) : workflowSteps[s].status = "completed" }

InitPair ==
    /\ \E n \in 2..MaxPairSteps :
          \E done \in SUBSET (1..n) :
              /\ Cardinality(done) <= n - 2
              /\ PartlyCompleted(n, done)
    /\ req = [p \in Procs |-> Idle]
    /\ resp = NoResponse
    /\ budget = Cardinality(Procs)

NextPair ==
    \E p \in Procs :
        \/ \E s \in WorkflowStepIds(1) \ CompletedSteps(1) :
              PatchStepUpdate(p, s, [status |-> "completed"])
        \/ PatchStepRead(p)
        \/ PatchStepWrite(p)

SpecPair == InitPair /\ [][NextPair]_vars

(***************************************************************************)
(* SpecLong: the step updates on the last steps of a workflow of LongTotal *)
(* steps of which all but the last two were completed, one request at a    *)
(* time.                                                                   *)
(***************************************************************************)
InitLong == PartlyCompleted(LongTotal, 1..(LongTotal - 2)) /\ NoRequest

NextLong ==
    StepRoutes(1, (LongTotal - 1)..LongTotal,
               { [status |-> "completed"], [status |-> "skipped"],
                 [status |-> "pending"] })

SpecLong == InitLong /\ [][NextLong]_vars

(***************************************************************************)
(* SpecMove: step updates of two requests whose statements interleave,     *)
(* some of which move the step to another workflow, and the delete of the  *)
(* workflow, on a workflow instantiated from a template of                 *)
(* 1..MaxRaceSteps steps.                                                  *)
(***************************************************************************)
MoveStepBodies ==
    { [status |-> "completed"], [workflowId |-> 2],
      [status |-> "completed", workflowId |-> 2] }

NextMove ==
    \E p \in Procs :
        \/ StepRoutes(p, 1..MaxRaceSteps, MoveStepBodies)
        \/ DeleteWorkflow(p, 1)

SpecMove == InitRace /\ [][NextMove]_vars

(***************************************************************************)
(* SpecResend: PATCH /api/workflow-steps/:id with status "completed", sent *)
(* for any step any number of times, and the workflow updates, on a        *)
(* workflow of 1..MaxSeqSteps steps of which some are completed; one       *)
(* request at a time.                                                      *)
(***************************************************************************)
InitResend ==
    /\ \E n \in 1..MaxSeqSteps :
          \E done \in SUBSET (1..n) : PartlyCompleted(n, done)
    /\ NoRequest

NextResend ==
    \/ StepRoutes(1, 1..MaxSeqSteps, {[status |-> "completed"]})
    \/ \E w \in WorkflowIds, b \in WorkflowBodies : PatchWorkflow(1, w, b)

SpecResend == InitResend /\ [][NextResend]_vars

(***************************************************************************)
(* SpecPatchPair: two PATCH /api/templates/:id requests with a steps       *)
(* array, one from each process and no other request, on a template that   *)
(* has a step or none; their statements interleave.                        *)
(***************************************************************************)
\* The database after POST /api/templates with n steps (stepOrder 1..n) on
\* the empty database.
Templated(n) ==
    /\ templates = {1}
    /\ templateSteps = [i \in 1..n |->
                          [templateId |-> 1, name |-> "A", stepOrder |-> i]]
    /\ workflows = <<>>
    /\ workflowSteps = <<>>
    /\ auditLogs = { [action |-> "create", entityType |-> "template", entityId |-> 1] }
    /\ nextId = [FirstIds EXCEPT !.template = 2, !.templateStep = n + 1]
    /\ users = <<>>
    /\ entities = [k \in EntityKinds |-> <<>>]

\* One request of each process.
OneRequestEach ==
    /\ req = [p \in Procs |-> Idle]
    /\ resp = NoResponse
    /\ budget = Cardinality(Procs)

\* The steps arrays of the two requests.
PatchPairArrays == { <<>>, <<StepB1>>, <<StepB2>> }

InitPatchPair == (\E n \in 0..1 : Templated(n)) /\ OneRequestEach

NextPatchPair ==
    \E p \in Procs :
        \/ \E S \in PatchPairArrays : PatchTemplateUpdate(p, 1, [steps |-> S])
        \/ PatchTemplateDelete(p)
        \/ PatchTemplateInsert(p)

SpecPatchPair == InitPatchPair /\ [][NextPatchPair]_vars

(***************************************************************************)
(* SpecClone: a PATCH /api/templates/:id that replaces the steps of a      *)
(* template that has a step or none, from one process, and a POST          *)
(* /api/workflows from that template, from the other, each sent once or    *)
(* not at all; their statements interleave.                                *)
(***************************************************************************)
\* The steps arrays of the PATCH: the longest one and its beginnings.
CloneNewSteps == <<StepB1, StepB2>>
CloneArrays == { SubSeq(CloneNewSteps, 1, n) : n \in 0..Len(CloneNewSteps) }

InitClone == (\E n \in 0..1 : Templated(n)) /\ OneRequestEach

NextClone ==
    \/ \E S \in CloneArrays : PatchTemplateUpdate(1, 1, [steps |-> S])
    \/ PatchTemplateDelete(1)
    \/ PatchTemplateInsert(1)
    \/ PostWorkflowCreate(2, [templateId |-> 1])
    \/ PostWorkflowRead(2)
    \/ PostWorkflowInsert(2)
    \/ PostWorkflowAudit(2)

SpecClone == InitClone /\ [][NextClone]_vars

(***************************************************************************)
(* The properties.                                                         *)
(***************************************************************************)
\* The request slot p is between requests and the last response sent is the
\* given one: the state right after that response when requests run one at
\* a time.
Answered(p, route, status) ==
    /\ req[p] = Idle
    /\ resp.route = route
    /\ resp.status = status

\* Integer rounding of 100*c/n to the nearest, halves up (n > 0).
RoundHalfUp(c, n) == (200 * c + n) \div (2 * n)

\* C1: after a PATCH /api/workflow-steps/:id with status=completed on a step
\* that was not completed, run to its response with no other request in
\* between, the workflow's progress is 100*completed/total over its current
\* steps, rounded half-up to an integer.
C1_ProgressIsHalfUpRound ==
    (Answered(1, "PATCH step", 200) /\ 1 \in DOMAIN workflows) =>
        workflows[1].progress =
            RoundHalfUp(Cardinality(CompletedSteps(1)),
                        Cardinality(WorkflowStepIds(1)))

\* The statement of request p that ends a PATCH /api/workflow-steps/:id which
\* aggregated: the workflow update went through and the 200 follows.
AggregatorWrote(p) ==
    /\ req[p].pc = "ps_write"
    /\ req'[p] = Idle
    /\ resp'.status = 200
    /\ req[p].wid \in DOMAIN workflows

\* The steps of workflow wid other than step id.
Siblings(wid, id) == WorkflowStepIds(wid) \ {id}

\* C2 as stated: when the only step of a workflow still in status pending is
\* marked completed through PATCH /api/workflow-steps/:id, the workflow's
\* status becomes completed and its completedAt is set.
C2_LastPendingCompletes ==
    [][ ( /\ AggregatorWrote(1)
          /\ req[1].was = "pending"
          /\ \A s \in Siblings(req[1].wid, req[1].id) :
                workflowSteps[s].status # "pending" )
        => /\ workflows'[req[1].wid].status = "completed"
           /\ workflows'[req[1].wid].completedAt # NULL ]_vars

\* C2, amended: when a step is marked completed through PATCH
\* /api/workflow-steps/:id, run to its response with no other request in
\* between, and every other step of its workflow is already completed, the
\* workflow's status becomes completed and its completedAt is set.
C2_LastUncompletedCompletes ==
    [][ ( /\ AggregatorWrote(1)
          /\ \A s \in Siblings(req[1].wid, req[1].id) :
                workflowSteps[s].status = "completed" )
        => /\ workflows'[req[1].wid].status = "completed"
           /\ workflows'[req[1].wid].completedAt # NULL ]_vars

\* A workflow of two steps has just been completed by the PATCH of a step.
C2_Witness ==
    /\ Answered(1, "PATCH step", 200)
    /\ 1 \in DOMAIN workflows
    /\ Cardinality(WorkflowStepIds(1)) = 2
    /\ CompletedSteps(1) = WorkflowStepIds(1)
    /\ resp.id \in WorkflowStepIds(1)
    /\ workflows[1].status = "completed"
    /\ workflows[1].completedAt # NULL
    /\ workflows[1].progress = 100

\* C3: a PATCH /api/workflow-steps/:id whose body has a status other than
\* completed, or no status, leaves every workflow row as it was, whatever the
\* status the step had.
C3_OtherStatusLeavesWorkflows ==
    [][ \A s \in 1..(MaxSeqSteps + 1), b \in StepBodies :
          ( /\ ~(Has(b, "status") /\ b.status = "completed")
            /\ PatchStepUpdate(1, s, b) )
          => /\ workflows' = workflows
             /\ req'[1] = Idle ]_vars

\* A completed step of a completed workflow has just been set to blocked, and
\* the workflow row still says completed, 100.
C3_Witness ==
    /\ Answered(1, "PATCH step", 200)
    /\ 1 \in DOMAIN workflows
    /\ resp.id \in WorkflowStepIds(1)
    /\ workflowSteps[resp.id].status = "blocked"
    /\ workflows[1].status = "completed"
    /\ workflows[1].progress = 100

\* C4: each write of the aggregator sets the workflow's status from the
\* progress it computed: completed, with completedAt stamped, exactly when
\* the progress is 100; in_progress exactly when it is between 0 and 100;
\* the status it found when the progress is 0; and it never makes a workflow
\* pending.
C4_StatusFollowsProgress ==
    [][ \A p \in Procs :
          AggregatorWrote(p) =>
            LET progress == req[p].update.progress
                before   == workflows[req[p].wid]
                after    == workflows'[req[p].wid]
            IN  /\ progress = 100 =>
                      after.status = "completed" /\ after.completedAt # NULL
                /\ (0 < progress /\ progress < 100) =>
                      /\ after.status = "in_progress"
                      /\ after.completedAt = before.completedAt
                /\ progress = 0 =>
                      /\ after.status = before.status
                      /\ after.completedAt = before.completedAt
                /\ (after.status = "completed" /\ before.status # "completed")
                      => progress = 100
                /\ (after.status = "in_progress" /\ before.status # "in_progress")
                      => (0 < progress /\ progress < 100)
                /\ after.status = "pending" => before.status = "pending" ]_vars

\* The aggregator has written a progress of 0 to a workflow that was not
\* pending any more, and the status stayed.
C4_Witness ==
    /\ \A p \in Procs : req[p] = Idle
    /\ resp.route = "PATCH step"
    /\ resp.status = 200
    /\ workflows[1].progress = 0
    /\ workflows[1].status # "pending"

\* No request waits for another: whatever statement a request has reached,
\* the next statement of the other one can run.
Uncoordinated ==
    \A p, q \in Procs :
        (p # q /\ req[p].pc \in {"ps_read", "ps_write"}) =>
            /\ req[q] = Idle =>
                  ENABLED (\E s \in 1..MaxRaceSteps :
                              PatchStepUpdate(q, s, [status |-> "completed"]))
            /\ req[q].pc = "ps_read" => ENABLED PatchStepRead(q)
            /\ req[q].pc = "ps_write" => ENABLED PatchStepWrite(q)

\* C5: two PATCH /api/workflow-steps/:id requests on steps of one workflow
\* are not coordinated, and the workflow row is what the last writer wrote:
\* every write stores the progress its request computed when it read the
\* steps, whatever the steps are at the write.
C5_LastWriterWins ==
    /\ []Uncoordinated
    /\ [][ \A p \in Procs :
             AggregatorWrote(p) =>
               workflows'[req[p].wid].progress = req[p].update.progress ]_vars

\* Both requests have finished, both steps of the workflow are completed, and
\* the workflow row still holds what was computed from a stale read.
C5_Witness ==
    /\ \A p \in Procs : req[p] = Idle
    /\ Cardinality(WorkflowStepIds(1)) = 2
    /\ CompletedSteps(1) = WorkflowStepIds(1)
    /\ workflows[1].progress = 50
    /\ workflows[1].status = "in_progress"
    /\ workflows[1].progress #
          RoundHalfUp(Cardinality(CompletedSteps(1)),
                      Cardinality(WorkflowStepIds(1)))

\* C6: when the step list the aggregator loaded is empty it divides nothing
\* and skips the workflow update: no request reaches the update with an empty
\* list.
C6_EmptyListSkipsUpdate ==
    \A p \in Procs : req[p].pc = "ps_write" => req[p].total > 0

\* The steps of workflow wid are the clones of the steps of template tid: one
\* for each, with its name and stepOrder, pending, and no others.
ClonesOf(wid, tid) ==
    /\ \A t \in TemplateStepIds(tid) :
          Cardinality({ s \in WorkflowStepIds(wid) :
              /\ workflowSteps[s].templateStepId = t
              /\ workflowSteps[s].name = templateSteps[t].name
              /\ workflowSteps[s].stepOrder = templateSteps[t].stepOrder
              /\ workflowSteps[s].status = "pending" }) = 1
    /\ \A s \in WorkflowStepIds(wid) :
          workflowSteps[s].templateStepId \in TemplateStepIds(tid)
    /\ Cardinality(WorkflowStepIds(wid)) = Cardinality(TemplateStepIds(tid))

\* The sequence of rows is in ascending stepOrder.
Ascending(steps) ==
    \A i, j \in DOMAIN steps : i < j => steps[i].stepOrder <= steps[j].stepOrder

\* C7: right after the 201 of a POST /api/workflows with a templateId, the
\* steps of the new workflow are one pending clone, with the same name and
\* stepOrder, of each step the template has, and no others; and a GET
\* /api/workflows/:id/steps answers with the workflow's steps in ascending
\* stepOrder.
C7_StepsCloneTemplate ==
    /\ (Answered(1, "POST workflow", 201) /\ resp.id \in DOMAIN workflows
            /\ workflows[resp.id].templateId # 0) =>
          ClonesOf(resp.id, workflows[resp.id].templateId)
    /\ Answered(1, "GET workflow steps", 200) =>
          /\ Ascending(resp.body)
          /\ { resp.body[i].id : i \in DOMAIN resp.body } = WorkflowStepIds(resp.id)
          /\ Len(resp.body) = Cardinality(WorkflowStepIds(resp.id))
          /\ \A i \in DOMAIN resp.body :
                resp.body[i] = [id |-> resp.body[i].id] @@ workflowSteps[resp.body[i].id]

\* A workflow created from a template of two steps, B with stepOrder 2 given
\* before A with stepOrder 1, has answered a GET of its steps: A, then B.
C7_Witness ==
    /\ Answered(1, "GET workflow steps", 200)
    /\ [action |-> "create", entityType |-> "workflow", entityId |-> resp.id]
          \in auditLogs
    /\ Len(resp.body) = 2
    /\ resp.body[1].name = "A" /\ resp.body[1].stepOrder = 1
    /\ resp.body[2].name = "B" /\ resp.body[2].stepOrder = 2
    /\ resp.body[1].status = "pending" /\ resp.body[2].status = "pending"
    /\ resp.id \in DOMAIN workflows
    /\ ClonesOf(resp.id, workflows[resp.id].templateId)

\* C8: in every reachable state the progress of every workflow is an integer
\* from 0 to 100.
C8_ProgressInRange ==
    \A w \in DOMAIN workflows : workflows[w].progress \in 0..100

\* Workflow wid has its row, no audit row, and as steps the clones of the
\* first k steps of some reading in stepOrder order of its template's steps,
\* k less than their number.
StrictPrefix(wid) ==
    /\ wid \in DOMAIN workflows
    /\ \A a \in auditLogs : ~(a.entityType = "workflow" /\ a.entityId = wid)
    /\ \E snap \in GetTemplateSteps(workflows[wid].templateId) :
       \E k \in 0..(Len(snap) - 1) :
          /\ Cardinality(WorkflowStepIds(wid)) = k
          /\ \A i \in 1..k :
                \E s \in WorkflowStepIds(wid) :
                    /\ workflowSteps[s].templateStepId = snap[i].id
                    /\ workflowSteps[s].name = snap[i].name
                    /\ workflowSteps[s].stepOrder = snap[i].stepOrder

\* C9: when a step insert of POST /api/workflows fails, the request ends in
\* an error response and nothing is taken back: the workflow row and the
\* steps inserted so far stay, a strict prefix in stepOrder order of the
\* template's steps, and no audit row for the workflow is written.
C9_PartialWorkflowStays ==
    [][ (req[1].pc = "wc_insert" /\ req'[1] = Idle) =>
          /\ resp'.route = "POST workflow"
          /\ resp'.status = 500
          /\ resp'.id = req[1].wid
          /\ UNCHANGED db
          /\ StrictPrefix(req[1].wid) ]_vars

\* A POST /api/workflows has failed after the first of two step inserts.
C9_Witness ==
    /\ Answered(1, "POST workflow", 500)
    /\ StrictPrefix(resp.id)
    /\ Cardinality(WorkflowStepIds(resp.id)) = 1
    /\ Cardinality(TemplateStepIds(workflows[resp.id].templateId)) = 2

\* C10: once a workflow exists, no statement of PATCH /api/templates/:id,
\* POST /api/templates/:id/steps or DELETE /api/templates/:id (nor of POST
\* /api/templates) changes a workflow step: their number, names, stepOrders
\* and statuses stay.
C10_TemplateRoutesLeaveWorkflowSteps ==
    [][ (workflows # <<>> /\ TemplateRoutes(1)) =>
            workflowSteps' = workflowSteps ]_vars

\* The template of a workflow of two steps has since been given other steps:
\* the workflow steps are as they were cloned, from template steps that are
\* no more.
C10_Witness ==
    /\ Answered(1, "PATCH template", 200)
    /\ 1 \in DOMAIN workflows
    /\ Cardinality(WorkflowStepIds(1)) = 2
    /\ \A s \in WorkflowStepIds(1) :
          /\ workflowSteps[s].templateStepId \notin DOMAIN templateSteps
          /\ workflowSteps[s].status = "pending"
    /\ TemplateStepIds(workflows[1].templateId) # {}

\* The rows of `table` that belong to template tid are the elements of the
\* steps array S, one row for each, with its name and stepOrder.
StepsAre(table, tid, S) ==
    LET ids == { s \in DOMAIN table : table[s].templateId = tid }
    IN  \E f \in [DOMAIN S -> ids] :
            /\ \A i, j \in DOMAIN S : i # j => f[i] # f[j]
            /\ \A s \in ids : \E i \in DOMAIN S : f[i] = s
            /\ \A i \in DOMAIN S :
                  /\ table[f[i]].name = S[i].name
                  /\ table[f[i]].stepOrder = S[i].stepOrder

\* C11: when a PATCH /api/templates/:id whose body has a steps array S has
\* run to its 200 with no other request in between, the template's steps are
\* exactly the elements of S (none of the earlier steps is left; an empty S
\* leaves none); a body without a steps array leaves the template steps as
\* they were.
C11_PatchReplacesSteps ==
    [][ /\ ( /\ req[1].pc \in {"ut_delete", "ut_insert"}
             /\ req'[1] = Idle
             /\ resp'.status = 200 )
           => StepsAre(templateSteps', req[1].tid, req[1].steps)
        /\ \A t \in TemplateIds, b \in TemplateBodies :
              (~Has(b, "steps") /\ PatchTemplateUpdate(1, t, b))
                 => (templateSteps' = templateSteps /\ req'[1] = Idle) ]_vars

\* A template that had a step has been given the steps A and B, both with
\* stepOrder 1, by a PATCH: it has those two and the earlier one is gone.
C11_Witness ==
    /\ Answered(1, "PATCH template", 200)
    /\ 1 \notin DOMAIN templateSteps
    /\ Cardinality(TemplateStepIds(resp.id)) = 2
    /\ StepsAre(templateSteps, resp.id, <<StepA1, StepB1>>)

AuditRow(action, entityType, entityId) ==
    [action |-> action, entityType |-> entityType, entityId |-> entityId]

\* C12: right after the response of a successful create, update or delete of
\* a template or a workflow (two of the auditable entities), the audit log
\* has a row with the action, the entity type and the id of the row.
C12_EveryWriteIsAudited ==
    /\ Answered(1, "POST template", 201) =>
          AuditRow("create", "template", resp.id) \in auditLogs
    /\ Answered(1, "POST workflow", 201) =>
          AuditRow("create", "workflow", resp.id) \in auditLogs
    /\ Answered(1, "PATCH template", 200) =>
          AuditRow("update", "template", resp.id) \in auditLogs
    /\ Answered(1, "DELETE template", 204) =>
          AuditRow("delete", "template", resp.id) \in auditLogs
    /\ Answered(1, "DELETE workflow", 204) =>
          AuditRow("delete", "workflow", resp.id) \in auditLogs

\* C13: no response of GET /api/users, GET /api/users/:id, POST /api/users or
\* PATCH /api/users/:id carries a user with a password field, whatever the
\* stored users are.
C13_NoPasswordInResponses ==
    resp.route \in {"GET users", "GET user", "POST user", "PATCH user"} =>
        \A i \in DOMAIN resp.body : "password" \notin DOMAIN resp.body[i]

\* GET /api/users has answered with two users, each stored with a password,
\* one of them the empty one left by a PATCH.
C13_Witness ==
    /\ Answered(1, "GET users", 200)
    /\ Len(resp.body) = 2
    /\ \A i \in DOMAIN resp.body :
          /\ resp.body[i].id \in DOMAIN users
          /\ resp.body[i].email = users[resp.body[i].id].email
          /\ "password" \in DOMAIN users[resp.body[i].id]
    /\ \E u \in DOMAIN users : users[u].password = ""

\* C14: every password that POST /api/users, or a PATCH /api/users/:id whose
\* body has a password field, writes to a user row is the hash of the value
\* submitted, never the value itself, the empty string included.
C14_StoredPasswordIsHash ==
    [][ /\ \A b \in NewUserBodies :
              (PostUserCreate(1, b) /\ users' # users) =>
                  users'[nextId.user].password = Hash(b.password)
        /\ \A u \in UserIds, b \in UserBodies :
              (Has(b, "password") /\ PatchUserUpdate(1, u, b) /\ u \in DOMAIN users) =>
                  /\ users'[u].password = Hash(b.password)
                  /\ users'[u].password # b.password ]_vars

\* C17: once DELETE /api/users/:id has answered 204 (its audit row is
\* written with the 204), no later GET /api/users/:id of that id answers
\* 200, whatever requests ran in between.
C17_DeletedUserStaysGone ==
    Answered(1, "GET user", 200) =>
        AuditRow("delete", "user", resp.id) \notin auditLogs


\* C19: a POST /api/workflows whose templateId is the id of no template is
\* answered 404 and creates no workflow row (and so no workflow step).
C19_UnknownTemplateIs404 ==
    [][ \A b \in NewWorkflowBodies :
          ( /\ Parses(InsertWorkflowSchema, b)
            /\ b.templateId \notin templates
            /\ PostWorkflowCreate(1, b) ) =>
              /\ workflows' = workflows
              /\ workflowSteps' = workflowSteps
              /\ req'[1] = Idle
              /\ resp'.status = 404 ]_vars


\* C16: a POST /api/templates whose steps array has an invalid step ends
\* with a 4xx answer, no template row and no step row of it.
C16_InvalidStepLeavesNoTemplate ==
    [][ ( /\ req[1].pc = "pt_insert"
          /\ \E i \in DOMAIN req[1].steps : ~Storable(req[1].steps[i])
          /\ PostTemplateInsert(1)
          /\ req'[1] = Idle )
        => /\ resp'.status \in 400..499
           /\ req[1].tid \notin templates'
           /\ \A s \in DOMAIN templateSteps' :
                 templateSteps'[s].templateId # req[1].tid ]_vars


\* No table changes in the step.
TablesUnchanged ==
    /\ templates' = templates
    /\ templateSteps' = templateSteps
    /\ workflows' = workflows
    /\ workflowSteps' = workflowSteps
    /\ auditLogs' = auditLogs
    /\ users' = users
    /\ entities' = entities

\* The step answers the request of slot 1 with this route and status.
Answers(route, status) ==
    /\ req'[1] = Idle
    /\ resp'.route = route
    /\ resp'.status = status

\* C15: a POST to /api/users, /api/departments, /api/employees, /api/tasks,
\* /api/notifications, /api/workflows or /api/templates/:id/steps whose body
\* fails the insert schema (a user body without password is one) is answered
\* 400 with the field errors, and no table changes: no row of the entity and
\* no audit row is created.
C15_InvalidBodyIs400 ==
    [][ /\ \A b \in NewUserBodies :
              (~Has(b, "password") /\ PostUserCreate(1, b)) =>
                  /\ Answers("POST user", 400)
                  /\ "password" \in resp'.body[1].errors
                  /\ TablesUnchanged
        /\ \A k \in EntityKinds : \A b \in NewEntityBodies[k] :
              (~Parses(InsertSchemaOf[k], b) /\ PostEntityCreate(1, k, b)) =>
                  /\ Answers("POST " \o k, 400)
                  /\ resp'.body[1].errors = InsertSchemaOf[k].required \ DOMAIN b
                  /\ TablesUnchanged
        /\ \A b \in NewWorkflowBodies :
              (~Parses(InsertWorkflowSchema, b) /\ PostWorkflowCreate(1, b)) =>
                  /\ Answers("POST workflow", 400)
                  /\ resp'.body[1].errors # {}
                  /\ TablesUnchanged
        /\ \A t \in 1..MaxTemplates, s \in NewStepBodies :
              (~Storable(s) /\ PostTemplateStep(1, t, s)) =>
                  /\ Answers("POST template step", 400)
                  /\ resp'.body[1].errors # {}
                  /\ TablesUnchanged ]_vars

\* A POST /api/users without password was answered 400 with the error of
\* the field, on a database that has a user and a department.
C15_Witness ==
    /\ Answered(1, "POST user", 400)
    /\ resp.body = <<[errors |-> {"password"}]>>
    /\ DOMAIN users # {}
    /\ DOMAIN entities.departments # {}


C20_DeleteLeavesStepsAndTasks ==
    [][ \A w \in WorkflowIds :
          DeleteWorkflow(1, w) =>
              /\ Answers("DELETE workflow", 204)
              /\ workflows' = Remove(workflows, {w})
              /\ workflowSteps' = workflowSteps
              /\ entities' = entities
              /\ templates' = templates
              /\ templateSteps' = templateSteps
              /\ users' = users
              /\ auditLogs' = auditLogs ]_vars

\* The DELETE of a workflow was answered 204, the workflow is gone, and a
\* step and a task that reference it are there.
C20_Witness ==
    /\ Answered(1, "DELETE workflow", 204)
    /\ resp.id \notin DOMAIN workflows
    /\ \E s \in DOMAIN workflowSteps : workflowSteps[s].workflowId = resp.id
    /\ \E t \in DOMAIN entities.tasks : entities.tasks[t].workflowId = resp.id


\* The last response was the 204 of this DELETE route for this id.
Deleted(route, id) ==
    /\ resp.route = route
    /\ resp.status = 204
    /\ resp.id = id

\* No row of any table is removed in the step.
NoRowRemoved ==
    /\ templates \subseteq templates'
    /\ \A s \in DOMAIN templateSteps :
          s \in DOMAIN templateSteps' /\ templateSteps'[s] = templateSteps[s]
    /\ workflows' = workflows
    /\ workflowSteps' = workflowSteps
    /\ auditLogs \subseteq auditLogs'
    /\ users' = users
    /\ entities' = entities

\* C21: the DELETE of a user, a department, an employee, a task, a template
\* or a workflow is answered 204 whether or not the id has a row, and a
\* DELETE that directly follows the 204 of a DELETE of the same id removes no
\* row.
C21_DeleteIsAlways204 ==
    [][ /\ \A u \in CrudUserIds :
              DeleteUserRow(1, u) => (Deleted("DELETE user", u) => NoRowRemoved)
        /\ DeleteUserAudit(1) =>
              /\ Answers("DELETE user", 204)
              /\ Deleted("DELETE user", req[1].id) => NoRowRemoved
        /\ \A k \in DeletableKinds, i \in EntityIds :
              DeleteEntity(1, k, i) =>
                  /\ Answers("DELETE " \o k, 204)
                  /\ Deleted("DELETE " \o k, i) => NoRowRemoved
        /\ \A t \in TemplateIds :
              DeleteTemplateSteps(1, t) =>
                  (Deleted("DELETE template", t) => NoRowRemoved)
        /\ DeleteTemplateRow(1) =>
              /\ Answers("DELETE template", 204)
              /\ Deleted("DELETE template", req[1].tid) => NoRowRemoved
        /\ \A w \in WorkflowIds :
              DeleteWorkflow(1, w) =>
                  /\ Answers("DELETE workflow", 204)
                  /\ Deleted("DELETE workflow", w) => NoRowRemoved ]_vars

\* The DELETE of a task was answered 204 for an id that no task ever had,
\* while the table has a task.
C21_Witness ==
    /\ Answered(1, "DELETE tasks", 204)
    /\ resp.id >= nextId.tasks
    /\ DOMAIN entities.tasks # {}


\* C22: a call of POST /api/seed that follows a call answered 200, on the
\* database that call seeded, is answered 200 too.
C22_SeedAgainSucceeds ==
    [][ ( /\ resp.route = "POST seed"
          /\ resp.status = 200
          /\ SeedStatement(1)
          /\ req'[1] = Idle )
        => resp'.status = 200 ]_vars


\* The ids of the rows of a response body.
IdsOf(body) == { body[i].id : i \in DOMAIN body }

BothFinished == budget = 0 /\ \A p \in Procs : req[p] = Idle

\* The completed steps the workflow had before the two requests: each
\* request that has started has completed one more.
CompletedBefore ==
    Cardinality(CompletedSteps(1)) - (Cardinality(Procs) - budget)

\* No request writes, and the workflow never shows once one has written, a
\* progress other than that of K+1 or K+2 completed steps.
PairOutcome ==
    LET n      == Cardinality(WorkflowStepIds(1))
        k      == CompletedBefore
        either == { Progress(k + 1, n), Progress(k + 2, n) }
    IN  /\ k >= 0 /\ k + 2 <= n
        /\ \A p \in Procs :
              req[p].pc = "ps_write" => req[p].update.progress \in either
        /\ workflows[1].progress \in either \cup { Progress(k, n) }
        /\ BothFinished =>
              /\ resp.status = 200
              /\ workflows[1].progress \in either
              /\ workflows[1].progress >= Progress(k + 1, n)

\* C24: two PATCH /api/workflow-steps/:id with status=completed on two
\* distinct steps that are not completed of one workflow with K of N steps
\* completed, and no other request: under every interleaving each request
\* completes its step with its first statement and the step stays completed,
\* so both are when both have finished, and the progress then is
\* round(100*(K+1)/N) or round(100*(K+2)/N), never less than
\* round(100*(K+1)/N).
C24_PairNeverBelowOneMore ==
    /\ []PairOutcome
    /\ [][ \A s \in WorkflowStepIds(1) :
             /\ workflowSteps[s].status = "completed" =>
                    workflowSteps'[s].status = "completed"
             /\ \A p \in Procs :
                    PatchStepUpdate(p, s, [status |-> "completed"]) =>
                       workflowSteps'[s].status = "completed" ]_vars

\* Both requests have finished on a workflow of four steps of which one was
\* completed before, and the workflow shows the progress of two completed
\* steps while three are completed: the last write came from the read made
\* before the other request's update.
C24_Witness ==
    /\ BothFinished
    /\ Cardinality(WorkflowStepIds(1)) = 4
    /\ Cardinality(CompletedSteps(1)) = 3
    /\ workflows[1].progress = 50
    /\ workflows[1].status = "in_progress"


\* C25: a write of the aggregator with a progress strictly between 0 and 100
\* makes the workflow in_progress whatever status it had (completed, blocked
\* and cancelled included), and no write of the aggregator clears
\* completedAt; so completed does not absorb: a completed workflow of which
\* one step is set back and another completed again is in_progress, below
\* 100, with the completedAt it had.
C25_CompletedIsNotAbsorbing ==
    [][ \A s \in WorkflowStatus :
          ( /\ AggregatorWrote(1)
            /\ workflows[req[1].wid].status = s ) =>
              LET before == workflows[req[1].wid]
                  after  == workflows'[req[1].wid]
                  computed == req[1].update.progress
              IN  /\ before.completedAt # NULL => after.completedAt # NULL
                  /\ (0 < computed /\ computed < 100) =>
                        /\ after.status = "in_progress"
                        /\ after.progress = computed
                        /\ after.completedAt = before.completedAt ]_vars

\* The workflow was completed, then one of its two steps was set back and
\* the other one completed again: it is in_progress at 50 and still carries
\* the time of its completion.
C25_Witness ==
    /\ Answered(1, "PATCH step", 200)
    /\ 1 \in DOMAIN workflows
    /\ Cardinality(WorkflowStepIds(1)) = 2
    /\ Cardinality(CompletedSteps(1)) = 1
    /\ workflows[1].status = "in_progress"
    /\ workflows[1].progress = 50
    /\ workflows[1].completedAt # NULL


\* C26: only completed steps count: while a step of the workflow has a
\* status other than completed, no write of the aggregator carries the
\* progress 100 or the status completed.
C26_UncompletedStepBarsCompletion ==
    [][ ( /\ AggregatorWrote(1)
          /\ CompletedSteps(req[1].wid) # WorkflowStepIds(req[1].wid) ) =>
            /\ req[1].update.progress # 100
            /\ Has(req[1].update, "status") =>
                  req[1].update.status # "completed"
            /\ workflows'[req[1].wid].progress # 100 ]_vars


\* C27: the step list the aggregator loads holds at least one step, so that
\* it divides by no zero, whenever the step the request updated still has
\* the workflowId the update returned (no other request has moved it): the
\* list holds that step, and no route deletes workflow steps.
C27_LoadedListHoldsTheStep ==
    [][ \A p \in Procs :
          ( /\ PatchStepRead(p)
            /\ workflowSteps[req[p].id].workflowId = req[p].wid ) =>
              /\ req[p].id \in WorkflowStepIds(req[p].wid)
              /\ req'[p].total >= 1
              /\ req'[p].update.progress # NaN ]_vars

\* A request has loaded the steps of a workflow that has been deleted, into
\* which its own body moved the step: the list holds that one step.
C27_Witness ==
    \E p \in Procs :
        /\ req[p].pc = "ps_write"
        /\ req[p].wid = 2
        /\ req[p].total = 1
        /\ workflows = <<>>


\* C28: a PATCH /api/workflow-steps/:id with status=completed sent again for
\* the step whose completing PATCH was answered last (no request in
\* between) leaves the progress and the status of the workflow as the first
\* one left them.  In SpecResend every PATCH of a step carries
\* status=completed, so the last response names the first request.
C28_ResendKeepsAggregate ==
    [][ ( /\ AggregatorWrote(1)
          /\ resp.route = "PATCH step"
          /\ resp.status = 200
          /\ resp.id = req[1].id ) =>
            /\ workflows'[req[1].wid].progress = workflows[req[1].wid].progress
            /\ workflows'[req[1].wid].status = workflows[req[1].wid].status
            /\ workflowSteps' = workflowSteps ]_vars

\* The second of two completing PATCHes of the first of two steps is about
\* to write, after a PATCH /api/workflows/:id had set the progress to 150
\* and the first one brought it to 50.
C28_Witness ==
    /\ req[1].pc = "ps_write"
    /\ req[1].id = 1
    /\ req[1].was = "completed"
    /\ resp = [route |-> "PATCH step", status |-> 200, id |-> 1, body |-> <<>>]
    /\ 1 \in DOMAIN workflows
    /\ workflows[1].progress = 50
    /\ req[1].update.progress = 50


\* No PATCH of a template waits for another: while one is between its
\* update and its response, the other process can start its own and can
\* run its delete.
Unserialised ==
    \A p, q \in Procs :
        (p # q /\ req[q].pc \in {"ut_delete", "ut_insert"}) =>
            /\ (req[p] = Idle /\ budget # 0) =>
                  \A S \in PatchPairArrays :
                      ENABLED PatchTemplateUpdate(p, 1, [steps |-> S])
            /\ req[p].pc = "ut_delete" => ENABLED PatchTemplateDelete(p)
            /\ req[p].pc = "ut_insert" => ENABLED PatchTemplateInsert(p)

\* C29: two PATCH /api/templates/:id with the steps arrays S1 and S2 are not
\* serialised: neither waits for the other, and when both have answered the
\* template has the steps of the array whose delete came last, with or
\* without the steps of the other array (and none of the steps it had).
C29_PatchesAreNotSerialised ==
    /\ []Unserialised
    /\ [](BothFinished =>
            /\ resp.status = 200
            /\ \E S, T \in PatchPairArrays :
                  \/ StepsAre(templateSteps, 1, S)
                  \/ StepsAre(templateSteps, 1, S \o T))

\* Both requests have answered and the template has the step of S1 and the
\* step of S2: it has neither array.
C29_Witness ==
    /\ BothFinished
    /\ StepsAre(templateSteps, 1, <<StepB1, StepB2>>)
    /\ \A S \in PatchPairArrays : ~StepsAre(templateSteps, 1, S)


\* The steps of workflow wid are the clones of the rows of the snapshot: one
\* pending step for each row, with its id, name and stepOrder, and no other.
ClonesSnapshot(wid, snap) ==
    \E f \in [DOMAIN snap -> WorkflowStepIds(wid)] :
        /\ \A i, j \in DOMAIN snap : i # j => f[i] # f[j]
        /\ \A s \in WorkflowStepIds(wid) : \E i \in DOMAIN snap : f[i] = s
        /\ \A i \in DOMAIN snap :
              /\ workflowSteps[f[i]].templateStepId = snap[i].id
              /\ workflowSteps[f[i]].name = snap[i].name
              /\ workflowSteps[f[i]].stepOrder = snap[i].stepOrder
              /\ workflowSteps[f[i]].status = "pending"

\* The rows of a snapshot without their ids.
Unnumbered(snap) ==
    [i \in DOMAIN snap |-> [name |-> snap[i].name, stepOrder |-> snap[i].stepOrder]]

\* C30: POST /api/workflows takes the steps of the template with one query
\* and clones that snapshot, whatever the template has become since; beside
\* a PATCH that replaces the steps the snapshot is the old steps, the new
\* steps, or what the template holds between the delete and the last insert:
\* nothing, or the first of the new steps (never old and new steps
\* together); the request answers 201 all the same.
C30_WorkflowClonesItsSnapshot ==
    /\ [](req[2].pc \in {"wc_insert", "wc_audit"} =>
            Unnumbered(req[2].snap) \in
               { <<StepA1>> } \cup CloneArrays)
    /\ [][ (req[2].pc = "wc_audit" /\ req'[2] = Idle) =>
              /\ resp'.route = "POST workflow"
              /\ resp'.status = 201
              /\ ClonesSnapshot(req[2].wid, req[2].snap)
              /\ workflowSteps' = workflowSteps ]_vars

\* Both requests have answered; the template has its two new steps and the
\* workflow created from it has one step, the clone of the first of them:
\* neither the old step nor the new ones.
C30_Witness ==
    /\ BothFinished
    /\ 1 \notin DOMAIN templateSteps
    /\ resp.status \in {200, 201}
    /\ 1 \in DOMAIN workflows
    /\ StepsAre(templateSteps, 1, CloneNewSteps)
    /\ Cardinality(WorkflowStepIds(1)) = 1
    /\ \A s \in WorkflowStepIds(1) :
          /\ workflowSteps[s].name = "B"
          /\ workflowSteps[s].templateStepId \in TemplateStepIds(1)

=============================================================================
